---- MODULE Spec2Model ----
(***************************************************************************)
(* Model of the data pipeline of the Toronto restaurant explorer:          *)
(* DataLoader (dataLoader.js) - randomSample, calculateHealthScore,        *)
(* getWorstSeverity, getHealthGrade and processData.                       *)
(*                                                                         *)
(* JavaScript values are represented as follows.                           *)
(*   - A string that the code inspects (Severity, names, Latitude,         *)
(*     Longitude, avg_rating) is the tuple of its characters, so that      *)
(*     includes(), trim(), toLowerCase() and length are computed on the    *)
(*     characters.  A missing field of that kind (JS undefined) is the     *)
(*     tuple `undefined`, whose single element is not a character.         *)
(*   - A string that the code only compares as a whole (Establishment      *)
(*     Type, Establishment Status) is a TLA+ string; a missing one is      *)
(*     "undefined".                                                        *)
(*   - A value that may be null, undefined, a number or an object          *)
(*     (yelpMatch, num_of_reviews) is a record tagged with jsType.         *)
(***************************************************************************)
EXTENDS Integers, Sequences, FiniteSets, TLC

VARIABLES
    op,               \* the DataLoader method under call
    pc,               \* "start" before the call, "done" after it returned
    dinesafeJson,     \* processData argument: raw inspection array
    yelpData,         \* processData argument: raw review data (objects mutated in place)
    restaurantsOnly,  \* processData local: inspection records of restaurant type
    sampledDinesafe,  \* processData local: result of randomSample
    picked,           \* positions of restaurantsOnly that randomSample returned
    mergedData,       \* processData return value
    scoreArg,         \* getHealthGrade argument
    gradeRet,         \* getHealthGrade return value
    files,            \* the three data files the page fetches
    sessionStorage,   \* the items cachedGeoData, cachedDinesafeData, cachedYelpData
    fetches,          \* state of the three requests of the current page load
    arrival,          \* the requests that completed, in the order of completion
    page,             \* the current page load: its number and what it did so far
    geoResult,        \* geo of the object loadData resolved with
    previous,         \* what the previous page load of the session resolved with
    ui,               \* the map page: mapState, tooltip, main map, minimap, timers, DOM
    cards             \* the cards page: the globals of cards.js

loadVars == <<files, sessionStorage, fetches, arrival, page, geoResult, previous>>

vars == <<op, pc, dinesafeJson, yelpData, restaurantsOnly, sampledDinesafe,
          picked, mergedData, scoreArg, gradeRet, loadVars, ui, cards>>

-----------------------------------------------------------------------------
(* Bounds of the model *)

\* this.SAMPLE_SIZE (15000 in the source), scaled down
SAMPLE_SIZE == 2
\* longest inspection array fed to processData
MaxRecords == 4
\* most phrases concatenated into one Severity text
MaxPhrases == 2
\* highest score handed to getHealthGrade (let score = 100)
MaxScore == 100

-----------------------------------------------------------------------------
(* JavaScript values *)

undefined == <<"undefined">>
EmptyString == <<>>

JsNull == [jsType |-> "null"]
JsUndefined == [jsType |-> "undefined"]
JsNumber(n) == [jsType |-> "number", value |-> n]
JsString(s) == [jsType |-> "string", value |-> s]

\* JS truthiness of a string-or-undefined value: undefined and "" are falsy
Truthy(v) == v # undefined /\ v # EmptyString

\* v || ""
OrEmpty(v) == IF Truthy(v) THEN v ELSE EmptyString

\* String.prototype.includes
includes(text, pat) ==
    \E i \in 0..(Len(text) - Len(pat)) : SubSeq(text, i + 1, i + Len(pat)) = pat

Max(a, b) == IF a >= b THEN a ELSE b
Min(a, b) == IF a <= b THEN a ELSE b

-----------------------------------------------------------------------------
(* DataLoader: configuration *)

RESTAURANT_TYPES ==
    { "Restaurant",
      "Food Take Out",
      "Food Court Vendor",
      "Cocktail Bar / Beverage Room",
      "Banquet Facility",
      "Cafeteria - Public Access",
      "Private Club",
      "Mobile Food Preparation Premises",
      "Hot Dog Cart",
      "Ice Cream / Yogurt Vendors",
      "Refreshment Stand (Stationary)",
      "Food Cart",
      "Catering Vehicle",
      "Chartered Cruise Boats" }

\* the severity phrases the scoring looks for
C_Crucial == <<"C", " ", "-", " ", "C", "r", "u", "c", "i", "a", "l">>
S_Significant ==
    <<"S", " ", "-", " ", "S", "i", "g", "n", "i", "f", "i", "c", "a", "n", "t">>
M_Minor == <<"M", " ", "-", " ", "M", "i", "n", "o", "r">>

-----------------------------------------------------------------------------
(* DataLoader.randomSample *)

\* [result[i], result[j]] = [result[j], result[i]], i and j counted from 0
Swap(result, i, j) ==
    [result EXCEPT ![i + 1] = result[j + 1], ![j + 1] = result[i + 1]]

\* result[i] = result[j]: the pick overwrites instead of swapping
SwapOverwrite(result, i, j) ==
    [result EXCEPT ![i + 1] = result[j + 1]]

\* the loop for (let i = ...; i < sampleSize; i++), from iteration i on;
\* rnd[i + 1] is Math.floor(Math.random() * (result.length - i)) of iteration i
RECURSIVE Shuffle(_, _, _, _)
Shuffle(result, i, sampleSize, rnd) ==
    IF i < sampleSize
    THEN Shuffle(Swap(result, i, i + rnd[i + 1]), i + 1, sampleSize, rnd)
    ELSE result

RECURSIVE ShuffleOverwrite(_, _, _, _)
ShuffleOverwrite(result, i, sampleSize, rnd) ==
    IF i < sampleSize
    THEN ShuffleOverwrite(SwapOverwrite(result, i, i + rnd[i + 1]), i + 1, sampleSize, rnd)
    ELSE result

\* faulty variant: the shuffled copy is returned without slice(0, sampleSize)
randomSample_NoSlice(array, sampleSize, rnd) ==
    IF sampleSize = 0 \/ sampleSize >= Len(array)
    THEN array
    ELSE Shuffle(array, 0, sampleSize, rnd)

\* faulty variant: result[i] = result[j] instead of the swap
randomSample_Overwrite(array, sampleSize, rnd) ==
    IF sampleSize = 0 \/ sampleSize >= Len(array)
    THEN array
    ELSE SubSeq(ShuffleOverwrite(array, 0, sampleSize, rnd), 1, sampleSize)

\* !sampleSize is sampleSize = 0 for a number
randomSample(array, sampleSize, rnd) ==
    IF sampleSize = 0 \/ sampleSize >= Len(array)
    THEN array
    ELSE SubSeq(Shuffle(array, 0, sampleSize, rnd), 1, sampleSize)

\* the values Math.floor(Math.random() * (n - i)) can take in the iterations
\* i = 0 .. sampleSize - 1 over an array of n elements: rnd[i + 1] \in 0..(n - i - 1)
RandomDraws(n, sampleSize) ==
    IF sampleSize = 0 \/ sampleSize >= n
    THEN { <<>> }
    ELSE { rnd \in [1..sampleSize -> 0..(n - 1)] :
             \A k \in 1..sampleSize : rnd[k] <= n - k }

-----------------------------------------------------------------------------
(* DataLoader.calculateHealthScore, getWorstSeverity, getHealthGrade *)

\* faulty variant: the severity phrases are tested in the order Minor, Significant, Crucial
calculateHealthScore_MinorFirst(restaurant) ==
    LET afterStatus ==
            IF restaurant.Status = "Closed" THEN 100 - 100
            ELSE IF restaurant.Status = "Conditional Pass" THEN 100 - 30
            ELSE 100
        severity == OrEmpty(restaurant.Severity)
        score ==
            IF includes(severity, M_Minor) THEN afterStatus - 10
            ELSE IF includes(severity, S_Significant) THEN afterStatus - 20
            ELSE IF includes(severity, C_Crucial) THEN afterStatus - 40
            ELSE afterStatus
    IN  Max(0, score)

\* faulty variant: the result is returned without Math.max(0, score)
calculateHealthScore_NoClamp(restaurant) ==
    LET afterStatus ==
            IF restaurant.Status = "Closed" THEN 100 - 100
            ELSE IF restaurant.Status = "Conditional Pass" THEN 100 - 30
            ELSE 100
        severity == OrEmpty(restaurant.Severity)
    IN  IF includes(severity, C_Crucial) THEN afterStatus - 40
        ELSE IF includes(severity, S_Significant) THEN afterStatus - 20
        ELSE IF includes(severity, M_Minor) THEN afterStatus - 10
        ELSE afterStatus

\* faulty variant: the two status deductions are swapped
calculateHealthScore_StatusSwapped(restaurant) ==
    LET afterStatus ==
            IF restaurant.Status = "Closed" THEN 100 - 30
            ELSE IF restaurant.Status = "Conditional Pass" THEN 100 - 100
            ELSE 100
        severity == OrEmpty(restaurant.Severity)
        score ==
            IF includes(severity, C_Crucial) THEN afterStatus - 40
            ELSE IF includes(severity, S_Significant) THEN afterStatus - 20
            ELSE IF includes(severity, M_Minor) THEN afterStatus - 10
            ELSE afterStatus
    IN  Max(0, score)

calculateHealthScore(restaurant) ==
    LET afterStatus ==
            IF restaurant.Status = "Closed" THEN 100 - 100
            ELSE IF restaurant.Status = "Conditional Pass" THEN 100 - 30
            ELSE 100
        severity == OrEmpty(restaurant.Severity)
        score ==
            IF includes(severity, C_Crucial) THEN afterStatus - 40
            ELSE IF includes(severity, S_Significant) THEN afterStatus - 20
            ELSE IF includes(severity, M_Minor) THEN afterStatus - 10
            ELSE afterStatus
    IN  Max(0, score)

\* faulty variant: Significant is tested before Crucial
getWorstSeverity_SignificantFirst(restaurant) ==
    LET severity == OrEmpty(restaurant.Severity)
    IN  IF includes(severity, S_Significant) THEN "S"
        ELSE IF includes(severity, C_Crucial) THEN "C"
        ELSE IF includes(severity, M_Minor) THEN "M"
        ELSE "clean"

getWorstSeverity(restaurant) ==
    LET severity == OrEmpty(restaurant.Severity)
    IN  IF includes(severity, C_Crucial) THEN "C"
        ELSE IF includes(severity, S_Significant) THEN "S"
        ELSE IF includes(severity, M_Minor) THEN "M"
        ELSE "clean"

\* faulty variant: strict comparisons
getHealthGrade_Strict(healthScore) ==
    IF healthScore > 90 THEN "A"
    ELSE IF healthScore > 75 THEN "B"
    ELSE IF healthScore > 60 THEN "C"
    ELSE "D"

getHealthGrade(healthScore) ==
    IF healthScore >= 90 THEN "A"
    ELSE IF healthScore >= 75 THEN "B"
    ELSE IF healthScore >= 60 THEN "C"
    ELSE "D"

-----------------------------------------------------------------------------
(* String operations used by processData *)

UpperCase == <<"A", "B", "C", "D", "E", "F", "G", "H", "I", "J", "K", "L", "M",
               "N", "O", "P", "Q", "R", "S", "T", "U", "V", "W", "X", "Y", "Z">>
LowerCase == <<"a", "b", "c", "d", "e", "f", "g", "h", "i", "j", "k", "l", "m",
               "n", "o", "p", "q", "r", "s", "t", "u", "v", "w", "x", "y", "z">>
DigitChars == <<"0", "1", "2", "3", "4", "5", "6", "7", "8", "9">>
WhiteSpace == {" "}

LowerChar(c) ==
    IF \E k \in DOMAIN UpperCase : UpperCase[k] = c
    THEN LowerCase[CHOOSE k \in DOMAIN UpperCase : UpperCase[k] = c]
    ELSE c

\* String.prototype.toLowerCase
toLowerCase(s) == [k \in 1..Len(s) |-> LowerChar(s[k])]

RECURSIVE trimStart(_)
trimStart(s) ==
    IF s # <<>> /\ Head(s) \in WhiteSpace THEN trimStart(Tail(s)) ELSE s

RECURSIVE trimEnd(_)
trimEnd(s) ==
    IF s # <<>> /\ s[Len(s)] \in WhiteSpace
    THEN trimEnd(SubSeq(s, 1, Len(s) - 1))
    ELSE s

\* faulty variant: only leading white space is removed
trim_StartOnly(s) == trimStart(s)

\* String.prototype.trim
trim(s) == trimEnd(trimStart(s))

\* (tenths / 10).toFixed(1) for 0 <= tenths < 100
toFixed1(tenths) ==
    <<DigitChars[(tenths \div 10) + 1], ".", DigitChars[(tenths % 10) + 1]>>

-----------------------------------------------------------------------------
(* DataLoader.processData *)

\* faulty variant: a deny-list of the one type "Supermarket"
isRestaurantType_DenyList(d) == d.Type # "Supermarket"

\* callback of dinesafeJson.filter: this.RESTAURANT_TYPES.has(type)
isRestaurantType(d) == d.Type \in RESTAURANT_TYPES

\* faulty variant: the fields are compared with undefined instead of tested for truth
hasCoordinates_NotUndefined(d) == d.Latitude # undefined /\ d.Longitude # undefined

\* callback of the final filter: d["Latitude"] && d["Longitude"]
hasCoordinates(d) == Truthy(d.Latitude) /\ Truthy(d.Longitude)

\* the empty array
EmptyArray == [isArray |-> TRUE, items |-> <<>>]

\* faulty variant: the Array.isArray check is missing
yelpArray_NoCheck(data) == data

\* if (!Array.isArray(yelpData)) yelpData = []
yelpArray(data) == IF data.isArray THEN data ELSE EmptyArray

\* faulty variant: an absent name counts as a name of length 0
synthesizeRating_NoFallback(d) ==
    IF ~Truthy(d.avg_rating)
    THEN LET nameLength ==
                 IF Truthy(d.RestaurantName) THEN Len(d.RestaurantName) ELSE 0
         IN  [d EXCEPT !.avg_rating = toFixed1(30 + (nameLength % 15)),
                       !.num_of_reviews = JsNumber(5 + (nameLength % 100))]
    ELSE d

\* callback of the first yelpData.forEach: simulated ratings
synthesizeRating(d) ==
    IF ~Truthy(d.avg_rating)
    THEN LET nameLength ==
                 IF Truthy(d.RestaurantName) THEN Len(d.RestaurantName) ELSE 10
         IN  [d EXCEPT !.avg_rating = toFixed1(30 + (nameLength % 15)),
                       !.num_of_reviews = JsNumber(5 + (nameLength % 100))]
    ELSE d

\* faulty variant: a later record of the same key replaces the earlier one
RECURSIVE buildYelpLookup_LastWins(_, _, _)
buildYelpLookup_LastWins(items, k, lookup) ==
    IF k > Len(items) THEN lookup
    ELSE LET yelpRest == items[k]
         IN  IF Truthy(yelpRest.RestaurantName)
             THEN LET key == toLowerCase(trim(yelpRest.RestaurantName))
                  IN  buildYelpLookup_LastWins(items, k + 1,
                                               (key :> yelpRest) @@ lookup)
             ELSE buildYelpLookup_LastWins(items, k + 1, lookup)

\* second yelpData.forEach, from element k on: the Map filled so far is lookup
RECURSIVE buildYelpLookup(_, _, _)
buildYelpLookup(items, k, lookup) ==
    IF k > Len(items) THEN lookup
    ELSE LET yelpRest == items[k]
         IN  IF Truthy(yelpRest.RestaurantName)
             THEN LET key == toLowerCase(trim(yelpRest.RestaurantName))
                  IN  IF key \in DOMAIN lookup
                      THEN buildYelpLookup(items, k + 1, lookup)
                      ELSE buildYelpLookup(items, k + 1, lookup @@ (key :> yelpRest))
             ELSE buildYelpLookup(items, k + 1, lookup)

\* Map.prototype.get
mapGet(lookup, key) == IF key \in DOMAIN lookup THEN lookup[key] ELSE JsUndefined

\* callback of sampledDinesafe.map
enrich(dinesafeRest, yelpLookup) ==
    LET yelpMatch ==
            IF Truthy(dinesafeRest.Name)
            THEN mapGet(yelpLookup, toLowerCase(trim(dinesafeRest.Name)))
            ELSE JsNull
        healthScore == calculateHealthScore(dinesafeRest)
    IN  [ Name          |-> dinesafeRest.Name,
          Type          |-> dinesafeRest.Type,
          Status        |-> dinesafeRest.Status,
          Severity      |-> dinesafeRest.Severity,
          Latitude      |-> dinesafeRest.Latitude,
          Longitude     |-> dinesafeRest.Longitude,
          yelpMatch     |-> yelpMatch,
          healthScore   |-> healthScore,
          healthGrade   |-> getHealthGrade(healthScore),
          worstSeverity |-> getWorstSeverity(dinesafeRest) ]

\* the empty Map
EmptyMap == [key \in {} |-> JsUndefined]

\* the body of processData(dinesafeArg, yelpArg); yelpData.forEach throws a
\* TypeError when the local yelpData is not an array.  pcReturned and pcThrew
\* are the positions of the caller after a return and after a throw.
processDataBody(dinesafeArg, yelpArg, pcReturned, pcThrew) ==
    LET filtered == SelectSeq(dinesafeArg, isRestaurantType)
        yelpLocal == yelpArray(yelpArg)
    IN  IF ~yelpLocal.isArray
        THEN /\ pc' = pcThrew
             /\ \E rnd \in RandomDraws(Len(filtered), SAMPLE_SIZE) :
                   /\ restaurantsOnly' = filtered
                   /\ sampledDinesafe' = randomSample(filtered, SAMPLE_SIZE, rnd)
                   /\ picked' = randomSample([k \in 1..Len(filtered) |-> k],
                                             SAMPLE_SIZE, rnd)
             /\ yelpData' = yelpArg
             /\ UNCHANGED mergedData
        ELSE LET items == [k \in 1..Len(yelpLocal.items) |->
                              synthesizeRating(yelpLocal.items[k])]
                 yelpLookup == buildYelpLookup(items, 1, EmptyMap)
             IN  /\ pc' = pcReturned
                 /\ \E rnd \in RandomDraws(Len(filtered), SAMPLE_SIZE) :
                      LET sampled == randomSample(filtered, SAMPLE_SIZE, rnd)
                          enriched == [k \in 1..Len(sampled) |->
                                          enrich(sampled[k], yelpLookup)]
                      IN  /\ restaurantsOnly' = filtered
                          /\ sampledDinesafe' = sampled
                          /\ picked' = randomSample([k \in 1..Len(filtered) |-> k],
                                                    SAMPLE_SIZE, rnd)
                          /\ yelpData' = IF yelpArg.isArray
                                         THEN [yelpArg EXCEPT !.items = items]
                                         ELSE yelpArg
                          /\ mergedData' = SelectSeq(enriched, hasCoordinates)

\* a call processData(dinesafeJson, yelpData)
ProcessData ==
    /\ op = "processData"
    /\ pc = "start"
    /\ processDataBody(dinesafeJson, yelpData, "done", "threw")
    /\ UNCHANGED <<ui, cards, op, dinesafeJson, scoreArg, gradeRet, loadVars>>

\* a call getHealthGrade(scoreArg)
GetHealthGrade ==
    /\ op = "getHealthGrade"
    /\ pc = "start"
    /\ gradeRet' = getHealthGrade(scoreArg)
    /\ pc' = "done"
    /\ UNCHANGED <<ui, cards, op, dinesafeJson, yelpData, restaurantsOnly, sampledDinesafe,
                   picked, mergedData, scoreArg, loadVars>>

-----------------------------------------------------------------------------
(* Inputs *)

Name_A == <<"A">>
Name_a_padded == <<" ", "a", " ">>
Name_B == <<"B">>
Coordinate_43_6 == <<"4", "3", ".", "6">>
Coordinate_m79_4 == <<"-", "7", "9", ".", "4">>
NotANumber == <<"a", "b", "c">>
Rating_4_5 == <<"4", ".", "5">>
Found == <<" ", "f", "o", "u", "n", "d">>

\* the phrases Severity texts are made of
Phrases == {C_Crucial, S_Significant, M_Minor, Found}

\* the texts made of at most n phrases
RECURSIVE PhraseTexts(_)
PhraseTexts(n) ==
    IF n = 0 THEN { EmptyString }
    ELSE PhraseTexts(n - 1) \cup { t \o p : t \in PhraseTexts(n - 1), p \in Phrases }

SeverityValues == PhraseTexts(MaxPhrases) \cup { undefined }
TypeValues ==
    { "Restaurant", "Food Take Out", "Supermarket", "Grocery Store", "undefined" }
StatusValues == { "Pass", "Conditional Pass", "Closed", "undefined" }
LatitudeValues == { Coordinate_43_6, NotANumber, EmptyString, undefined }
LongitudeValues == { Coordinate_m79_4, NotANumber, EmptyString, undefined }

\* every inspection record over the field values above
InspectionRecords ==
    [ Name      : { Name_A, undefined },
      Type      : TypeValues,
      Status    : StatusValues,
      Severity  : SeverityValues,
      Latitude  : LatitudeValues,
      Longitude : LongitudeValues ]

\* the inspection records the longer arrays are made of
InspectionPool ==
    { [ Name |-> Name_A, Type |-> "Restaurant", Status |-> "Pass",
        Severity |-> EmptyString,
        Latitude |-> Coordinate_43_6, Longitude |-> Coordinate_m79_4 ],
      [ Name |-> Name_B, Type |-> "Food Take Out", Status |-> "Conditional Pass",
        Severity |-> M_Minor,
        Latitude |-> Coordinate_43_6, Longitude |-> Coordinate_m79_4 ],
      [ Name |-> Name_A, Type |-> "Supermarket", Status |-> "Pass",
        Severity |-> undefined,
        Latitude |-> Coordinate_43_6, Longitude |-> Coordinate_m79_4 ],
      [ Name |-> undefined, Type |-> "Restaurant", Status |-> "Closed",
        Severity |-> C_Crucial,
        Latitude |-> EmptyString, Longitude |-> Coordinate_m79_4 ],
      [ Name |-> Name_B, Type |-> "Hot Dog Cart", Status |-> "Pass",
        Severity |-> S_Significant \o Found,
        Latitude |-> Coordinate_43_6, Longitude |-> NotANumber ] }

\* the arrays of at most n elements of S
ArraysUpTo(S, n) == UNION { [1..m -> S] : m \in 0..n }

Review_a ==
    [ RestaurantName |-> Name_a_padded, avg_rating |-> Rating_4_5,
      num_of_reviews |-> JsString(<<"1", "2">>) ]

\* review data: not an array, an empty array, or an array of review records
YelpInputs ==
    { [isArray |-> FALSE],
      [isArray |-> TRUE, items |-> <<>>],
      [isArray |-> TRUE, items |-> <<Review_a>>] }

NoGrade == "none"

Resources == {"geo", "dinesafe", "yelp"}

\* sessionStorage.getItem of a key that was never set is null
NoItem == [present |-> FALSE]
EmptyStorage ==
    [ cachedGeoData |-> NoItem, cachedDinesafeData |-> NoItem, cachedYelpData |-> NoItem,
      written |-> 0 ]

\* a page load that has not done anything yet
NewPage(n) ==
    [ load |-> n, usedCache |-> FALSE, fetchCalls |-> 0, setItemCalls |-> 0,
      processDataCalls |-> 0, initMapCalls |-> 0, alerts |-> 0, writeFailedAt |-> 0,
      yelpArg |-> [isArray |-> TRUE, items |-> <<>>] ]

NoGeo == [type |-> "none"]
NoPrevious == [resolved |-> FALSE]

\* neither page is shown
NoUi == [shown |-> FALSE]
NoCards == [shown |-> FALSE]
NoPageShown == ui = NoUi /\ cards = NoCards

\* no page is loading: the DataLoader methods are called on their own
NoPageLoad ==
    /\ NoPageShown
    /\ files = [geo |-> NoGeo, dinesafe |-> <<>>, yelp |-> EmptyArray]
    /\ sessionStorage = EmptyStorage
    /\ fetches = [r \in Resources |-> "none"]
    /\ arrival = <<>>
    /\ page = NewPage(0)
    /\ geoResult = NoGeo
    /\ previous = NoPrevious

\* a call processData(dinesafeJson, yelpData): one inspection record of any
\* kind, or up to MaxRecords records of the pool
InitProcessData ==
    /\ op = "processData"
    /\ pc = "start"
    /\ dinesafeJson \in { <<r>> : r \in InspectionRecords }
                          \cup ArraysUpTo(InspectionPool, MaxRecords)
    /\ yelpData \in YelpInputs
    /\ restaurantsOnly = <<>>
    /\ sampledDinesafe = <<>>
    /\ picked = <<>>
    /\ mergedData = <<>>
    /\ scoreArg = 0
    /\ gradeRet = NoGrade
    /\ NoPageLoad

\* a call getHealthGrade(scoreArg)
InitGetHealthGrade ==
    /\ op = "getHealthGrade"
    /\ pc = "start"
    /\ dinesafeJson = <<>>
    /\ yelpData = [isArray |-> TRUE, items |-> <<>>]
    /\ restaurantsOnly = <<>>
    /\ sampledDinesafe = <<>>
    /\ picked = <<>>
    /\ mergedData = <<>>
    /\ scoreArg \in 0..MaxScore
    /\ gradeRet = NoGrade
    /\ NoPageLoad

Init == InitProcessData \/ InitGetHealthGrade

Next == ProcessData \/ GetHealthGrade

Spec == Init /\ [][Next]_vars

-----------------------------------------------------------------------------
(* JSON.stringify and JSON.parse of the raw data.  The JSON text of an object  *)
(* holds the properties that are not undefined; a property the text does not  *)
(* hold reads as undefined after JSON.parse.                                   *)

\* faulty variant: a property holding the empty string is left out as well
textProperty_DropEmpty(v) ==
    IF v = undefined \/ v = EmptyString THEN [has |-> FALSE] ELSE [has |-> TRUE, v |-> v]

\* a property whose value is a string kept as characters
textProperty(v) == IF v = undefined THEN [has |-> FALSE] ELSE [has |-> TRUE, v |-> v]
\* a property whose value is a string kept whole
stringProperty(v) == IF v = "undefined" THEN [has |-> FALSE] ELSE [has |-> TRUE, v |-> v]
\* a property whose value is tagged with its jsType
taggedProperty(v) == IF v = JsUndefined THEN [has |-> FALSE] ELSE [has |-> TRUE, v |-> v]

readText(prop) == IF prop.has THEN prop.v ELSE undefined
readString(prop) == IF prop.has THEN prop.v ELSE "undefined"
readTagged(prop) == IF prop.has THEN prop.v ELSE JsUndefined

stringifyInspection(d) ==
    [ Name      |-> textProperty(d.Name),
      Type      |-> stringProperty(d.Type),
      Status    |-> stringProperty(d.Status),
      Severity  |-> textProperty(d.Severity),
      Latitude  |-> textProperty(d.Latitude),
      Longitude |-> textProperty(d.Longitude) ]

parseInspection(o) ==
    [ Name      |-> readText(o.Name),
      Type      |-> readString(o.Type),
      Status    |-> readString(o.Status),
      Severity  |-> readText(o.Severity),
      Latitude  |-> readText(o.Latitude),
      Longitude |-> readText(o.Longitude) ]

stringifyReview(d) ==
    [ RestaurantName |-> textProperty(d.RestaurantName),
      avg_rating     |-> textProperty(d.avg_rating),
      num_of_reviews |-> taggedProperty(d.num_of_reviews) ]

parseReview(o) ==
    [ RestaurantName |-> readText(o.RestaurantName),
      avg_rating     |-> readText(o.avg_rating),
      num_of_reviews |-> readTagged(o.num_of_reviews) ]

\* JSON.stringify(geo), JSON.stringify(dinesafeJson), JSON.stringify(yelpData)
stringifyGeo(geo) == [json |-> "object", value |-> geo]
stringifyDinesafe(array) ==
    [json |-> "array", elems |-> [k \in 1..Len(array) |-> stringifyInspection(array[k])]]
stringifyYelp(data) ==
    [json |-> "array",
     elems |-> [k \in 1..Len(data.items) |-> stringifyReview(data.items[k])]]

\* JSON.parse(cachedGeoData), JSON.parse(cachedDinesafeData), JSON.parse(cachedYelpData)
parseGeo(text) == text.value
parseDinesafe(text) == [k \in 1..Len(text.elems) |-> parseInspection(text.elems[k])]
parseYelp(text) ==
    [isArray |-> TRUE, items |-> [k \in 1..Len(text.elems) |-> parseReview(text.elems[k])]]

-----------------------------------------------------------------------------
(* DataLoader.loadData and the page script that calls it *)

\* most page loads in one browser session
MaxLoads == 2

Item(text) == [present |-> TRUE, text |-> text]

\* faulty variant: cachedGeoData || cachedDinesafeData || cachedYelpData
cacheHit_Any(storage) ==
    \/ storage.cachedGeoData.present
    \/ storage.cachedDinesafeData.present
    \/ storage.cachedYelpData.present

\* cachedGeoData && cachedDinesafeData && cachedYelpData: an item that was set
\* is a non-empty string
cacheHit(storage) ==
    /\ storage.cachedGeoData.present
    /\ storage.cachedDinesafeData.present
    /\ storage.cachedYelpData.present

\* the three setItem calls in their order; the call number failAt throws
\* (0: none does), and the calls after it are not made.  written counts the
\* setItem calls that stored an item since the session began.
writeItems(storage, geo, dinesafe, yelp, failAt) ==
    [ cachedGeoData |->
          IF failAt = 0 \/ failAt > 1
          THEN Item(stringifyGeo(geo)) ELSE storage.cachedGeoData,
      cachedDinesafeData |->
          IF failAt = 0 \/ failAt > 2
          THEN Item(stringifyDinesafe(dinesafe)) ELSE storage.cachedDinesafeData,
      cachedYelpData |->
          IF failAt = 0 \/ failAt > 3
          THEN Item(stringifyYelp(yelp)) ELSE storage.cachedYelpData,
      written |-> storage.written + (IF failAt = 0 THEN 3 ELSE failAt - 1) ]

\* faulty variant: the raw data is cached on both branches
storageAfter_AlwaysWrite(hit, storage, geo, dinesafe, yelp, failAt) ==
    writeItems(storage, geo, dinesafe, yelp, failAt)

\* sessionStorage after loadData: only the branch that fetched caches the raw data
storageAfter(hit, storage, geo, dinesafe, yelp, failAt) ==
    IF hit THEN storage ELSE writeItems(storage, geo, dinesafe, yelp, failAt)

\* faulty variant: the setItem calls are not inside try/catch
cacheWriteThrows_NoCatch(failAt) == failAt # 0

\* does an exception of a setItem call leave the try block? catch (e) logs it
cacheWriteThrows(failAt) == FALSE

\* faulty variant: Promise.allSettled
promiseAll_AllSettled(requests) ==
    IF \A r \in DOMAIN requests : requests[r] \in {"ok", "failed"}
    THEN "fulfilled" ELSE "pending"

\* faulty variant: Promise.any
promiseAll_Any(requests) ==
    IF \E r \in DOMAIN requests : requests[r] = "ok" THEN "fulfilled"
    ELSE IF \A r \in DOMAIN requests : requests[r] = "failed" THEN "rejected"
    ELSE "pending"

\* Promise.all over the three requests
promiseAll(requests) ==
    IF \E r \in DOMAIN requests : requests[r] = "failed" THEN "rejected"
    ELSE IF \A r \in DOMAIN requests : requests[r] = "ok" THEN "fulfilled"
    ELSE "pending"

\* JSON.parse(null), the value of an item that is not there, is null
NullGeo == [type |-> "null"]

\* loadData, cache branch: parse the three items, process, return.  With
\* dinesafeJson null processData throws at dinesafeJson.length.
LoadFromCache ==
    /\ op = "loadData"
    /\ pc = "start"
    /\ cacheHit(sessionStorage)
    /\ LET geo == IF sessionStorage.cachedGeoData.present
                  THEN parseGeo(sessionStorage.cachedGeoData.text) ELSE NullGeo
           yelpArg == IF sessionStorage.cachedYelpData.present
                      THEN parseYelp(sessionStorage.cachedYelpData.text)
                      ELSE [isArray |-> FALSE]
       IN  IF sessionStorage.cachedDinesafeData.present
           THEN LET dinesafeArg == parseDinesafe(sessionStorage.cachedDinesafeData.text)
                IN  /\ dinesafeJson' = dinesafeArg
                    /\ processDataBody(dinesafeArg, yelpArg, "resolved", "rejected")
                    /\ geoResult' = geo
                    /\ sessionStorage' = storageAfter(TRUE, sessionStorage, geo,
                                                      dinesafeArg, yelpArg, 0)
                    /\ page' = [page EXCEPT !.usedCache = TRUE,
                                            !.processDataCalls = @ + 1,
                                            !.yelpArg = yelpArg]
           ELSE /\ pc' = "rejected"
                /\ page' = [page EXCEPT !.usedCache = TRUE,
                                        !.processDataCalls = @ + 1]
                /\ UNCHANGED <<dinesafeJson, yelpData, restaurantsOnly, sampledDinesafe,
                               picked, mergedData, geoResult, sessionStorage>>
    /\ UNCHANGED <<ui, cards, op, scoreArg, gradeRet, files, fetches, arrival, previous>>

\* loadData, fetch branch up to the await: d3.json, d3.json and d3.csv are started
StartFetches ==
    /\ op = "loadData"
    /\ pc = "start"
    /\ ~cacheHit(sessionStorage)
    /\ pc' = "fetching"
    /\ fetches' = [r \in Resources |-> "pending"]
    /\ page' = [page EXCEPT !.fetchCalls = @ + 3]
    /\ UNCHANGED <<ui, cards, op, dinesafeJson, yelpData, restaurantsOnly, sampledDinesafe, picked,
                   mergedData, scoreArg, gradeRet, files, sessionStorage, arrival,
                   geoResult, previous>>

\* a request completes
FetchSucceeds ==
    /\ op = "loadData"
    /\ \E r \in Resources :
          /\ fetches[r] = "pending"
          /\ fetches' = [fetches EXCEPT ![r] = "ok"]
          /\ arrival' = Append(arrival, r)
    /\ UNCHANGED <<ui, cards, op, pc, dinesafeJson, yelpData, restaurantsOnly, sampledDinesafe,
                   picked, mergedData, scoreArg, gradeRet, files, sessionStorage, page,
                   geoResult, previous>>

\* a request fails; the first failure rejects Promise.all, and with it loadData
FetchFails ==
    /\ op = "loadData"
    /\ \E r \in Resources :
          /\ fetches[r] = "pending"
          /\ fetches' = [fetches EXCEPT ![r] = "failed"]
    /\ pc' = IF pc = "fetching" /\ promiseAll(fetches') = "rejected"
             THEN "rejected" ELSE pc
    /\ UNCHANGED <<ui, cards, op, dinesafeJson, yelpData, restaurantsOnly, sampledDinesafe,
                   picked, mergedData, scoreArg, gradeRet, files, sessionStorage,
                   arrival, page, geoResult, previous>>

\* loadData, fetch branch after the await: cache the raw data, process, return.
\* [geo, dinesafeJson, yelpData] are the results in the order of the requests.
AfterFetches ==
    /\ op = "loadData"
    /\ pc = "fetching"
    /\ promiseAll(fetches) = "fulfilled"
    /\ \E failAt \in 0..3 :
          /\ sessionStorage' = storageAfter(FALSE, sessionStorage, files.geo,
                                            files.dinesafe, files.yelp, failAt)
          /\ IF cacheWriteThrows(failAt)
             THEN /\ pc' = "rejected"
                  /\ page' = [page EXCEPT !.setItemCalls = failAt,
                                          !.writeFailedAt = failAt]
                  /\ UNCHANGED <<dinesafeJson, yelpData, restaurantsOnly,
                                 sampledDinesafe, picked, mergedData, geoResult>>
             ELSE /\ dinesafeJson' = files.dinesafe
                  /\ processDataBody(files.dinesafe, files.yelp, "resolved", "rejected")
                  /\ geoResult' = files.geo
                  /\ page' = [page EXCEPT !.setItemCalls = IF failAt = 0 THEN 3 ELSE failAt,
                                          !.writeFailedAt = failAt,
                                          !.processDataCalls = @ + 1,
                                          !.yelpArg = files.yelp]
    /\ UNCHANGED <<ui, cards, op, scoreArg, gradeRet, files, fetches, arrival, previous>>

\* script.js: .then(({ geo, mergedData }) => initMap(geo, mergedData))
ThenCallback ==
    /\ op = "loadData"
    /\ pc = "resolved"
    /\ pc' = "shown"
    /\ page' = [page EXCEPT !.initMapCalls = @ + 1]
    /\ UNCHANGED <<ui, cards, op, dinesafeJson, yelpData, restaurantsOnly, sampledDinesafe, picked,
                   mergedData, scoreArg, gradeRet, files, sessionStorage, fetches,
                   arrival, geoResult, previous>>

\* script.js: .catch(error => alert(...))
CatchCallback ==
    /\ op = "loadData"
    /\ pc = "rejected"
    /\ pc' = "failed"
    /\ page' = [page EXCEPT !.alerts = @ + 1]
    /\ UNCHANGED <<ui, cards, op, dinesafeJson, yelpData, restaurantsOnly, sampledDinesafe, picked,
                   mergedData, scoreArg, gradeRet, files, sessionStorage, fetches,
                   arrival, geoResult, previous>>

\* the user reloads the page: the script runs again, sessionStorage stays
Reload ==
    /\ op = "loadData"
    /\ pc \in {"shown", "failed"}
    /\ page.load < MaxLoads
    /\ previous' = IF pc = "shown"
                   THEN [ resolved |-> TRUE, usedCache |-> page.usedCache,
                          geo |-> geoResult, mergedData |-> mergedData,
                          dinesafeArg |-> dinesafeJson, yelpArg |-> page.yelpArg,
                          restaurantsOnly |-> restaurantsOnly ]
                   ELSE NoPrevious
    /\ pc' = "start"
    /\ page' = NewPage(page.load + 1)
    /\ fetches' = [r \in Resources |-> "none"]
    /\ arrival' = <<>>
    /\ dinesafeJson' = <<>>
    /\ yelpData' = EmptyArray
    /\ restaurantsOnly' = <<>>
    /\ sampledDinesafe' = <<>>
    /\ picked' = <<>>
    /\ mergedData' = <<>>
    /\ geoResult' = NoGeo
    /\ UNCHANGED <<ui, cards, op, scoreArg, gradeRet, files, sessionStorage>>

\* the data files
Neighbourhoods == [type |-> "FeatureCollection", features |-> <<"Annex", "Danforth">>]

Review_B_unrated ==
    [ RestaurantName |-> Name_B, avg_rating |-> EmptyString,
      num_of_reviews |-> JsUndefined ]

\* most inspection records in Dinesafe.json
MaxFileRecords == 3

FileInspections ==
    << [ Name |-> Name_A, Type |-> "Restaurant", Status |-> "Pass",
         Severity |-> EmptyString,
         Latitude |-> Coordinate_43_6, Longitude |-> Coordinate_m79_4 ],
       [ Name |-> Name_B, Type |-> "Food Take Out", Status |-> "Conditional Pass",
         Severity |-> M_Minor,
         Latitude |-> Coordinate_43_6, Longitude |-> Coordinate_m79_4 ] >>

\* a Dinesafe.json of n records
DinesafeFile(n) ==
    [k \in 1..n |-> FileInspections[((k - 1) % Len(FileInspections)) + 1]]

\* the first page load of a browser session: nothing is cached yet
InitLoad ==
    /\ op = "loadData"
    /\ pc = "start"
    /\ files \in [ geo : {Neighbourhoods},
                   dinesafe : {DinesafeFile(n) : n \in 0..MaxFileRecords},
                   yelp : { [isArray |-> TRUE, items |-> <<Review_a, Review_B_unrated>>] } ]
    /\ sessionStorage = EmptyStorage
    /\ fetches = [r \in Resources |-> "none"]
    /\ arrival = <<>>
    /\ page = NewPage(1)
    /\ geoResult = NoGeo
    /\ previous = NoPrevious
    /\ dinesafeJson = <<>>
    /\ yelpData = EmptyArray
    /\ restaurantsOnly = <<>>
    /\ sampledDinesafe = <<>>
    /\ picked = <<>>
    /\ mergedData = <<>>
    /\ scoreArg = 0
    /\ gradeRet = NoGrade
    /\ NoPageShown

NextLoad ==
    \/ LoadFromCache
    \/ StartFetches
    \/ FetchSucceeds
    \/ FetchFails
    \/ AfterFetches
    \/ ThenCallback
    \/ CatchCallback
    \/ Reload

SpecLoad == InitLoad /\ [][NextLoad]_vars

-----------------------------------------------------------------------------
(* The map page after initMap(geo, mergedData): the data on the map *)

\* most records in the mergedData handed to initMap
MaxMapRecords == 4

Name_C == <<"C">>
Coordinate_43_7 == <<"4", "3", ".", "7">>

\* raw inspection records behind the records on the map
MapInspections ==
    << [ Name |-> Name_A, Type |-> "Restaurant", Status |-> "Pass",
         Severity |-> EmptyString,
         Latitude |-> Coordinate_43_6, Longitude |-> Coordinate_m79_4 ],
       [ Name |-> Name_B, Type |-> "Private Club", Status |-> "Conditional Pass",
         Severity |-> M_Minor,
         Latitude |-> Coordinate_43_7, Longitude |-> Coordinate_m79_4 ],
       [ Name |-> Name_C, Type |-> "Food Take Out", Status |-> "Closed",
         Severity |-> C_Crucial,
         Latitude |-> Coordinate_43_6, Longitude |-> Coordinate_m79_4 ] >>

\* the mergedData processData returns for n of them (no sampling) and the two reviews
MapData(n) ==
    LET yelpLookup == buildYelpLookup(<<Review_a, synthesizeRating(Review_B_unrated)>>,
                                      1, EmptyMap)
    IN  SelectSeq([k \in 1..n |->
                      enrich(MapInspections[((k - 1) % Len(MapInspections)) + 1], yelpLookup)],
                  hasCoordinates)

\* feature.properties.AREA_NAME of the features of geoData
AreaNames == {Neighbourhoods.features[k] : k \in DOMAIN Neighbourhoods.features}

\* d3.geoContains(feature, [+resto.Longitude, +resto.Latitude])
geoContains(area, resto) ==
    \/ area = "Annex" /\ resto.Latitude = Coordinate_43_6
    \/ area = "Danforth" /\ resto.Latitude = Coordinate_43_7

-----------------------------------------------------------------------------
(* Timers: setTimeout and clearTimeout.  ui.timers holds the pending timers;  *)
(* a handle is the id setTimeout returned, or 0 for null.  An id is taken     *)
(* again only when no pending timer and no handle holds it.                   *)

\* most pending timers of one kind that no handle refers to
MaxTimers == 1

NoArea == "none"
NoDot == 0

Timer(id, kind, area, dot) == [id |-> id, kind |-> kind, area |-> area, dot |-> dot]

TimersOf(s, kind) == {t \in s.timers : t.kind = kind}

UsedIds(s) ==
    {t.id : t \in s.timers}
        \cup {s.tooltipShowTimeout, s.tooltipHideTimeout, s.lastHoverTimeout, 0}

FreshId(s) ==
    CHOOSE i \in 1..(Cardinality(UsedIds(s)) + 1) :
        /\ i \notin UsedIds(s)
        /\ \A j \in 1..(i - 1) : j \in UsedIds(s)

\* the id of a timer whose id the code drops: such timers are numbered apart,
\* below 0, within their kind
UnkeptId(s, kind) ==
    LET used == {t.id : t \in TimersOf(s, kind)}
    IN  CHOOSE i \in {-n : n \in 1..(Cardinality(used) + 1)} :
            /\ i \notin used
            /\ \A j \in (i + 1)..(-1) : j \in used


\* clearTimeout(id)
clearTimeout(timers, id) == {t \in timers : t.id # id}

-----------------------------------------------------------------------------
(* Tooltip *)

\* the text of the average score in the neighbourhood tooltip: tenths of a
\* point, or one of
NotAvailable == -1
Blank == -2

NoContent == [kind |-> "none", area |-> NoArea, dot |-> NoDot, avg |-> Blank]
DotContent(dot) == [kind |-> "dot", area |-> NoArea, dot |-> dot, avg |-> Blank]
AreaContent(area, avg) == [kind |-> "area", area |-> area, dot |-> NoDot, avg |-> avg]

\* if (this.tooltipHideTimeout) { clearTimeout(...); this.tooltipHideTimeout = null; }
cancelHide(s) ==
    IF s.tooltipHideTimeout # 0
    THEN [s EXCEPT !.timers = clearTimeout(@, s.tooltipHideTimeout),
                   !.tooltipHideTimeout = 0]
    ELSE s

\* if (this.tooltipShowTimeout) { clearTimeout(...); this.tooltipShowTimeout = null; }
\* (show does not assign null, it assigns the new id right away)
cancelShow(s) ==
    IF s.tooltipShowTimeout # 0
    THEN [s EXCEPT !.timers = clearTimeout(@, s.tooltipShowTimeout),
                   !.tooltipShowTimeout = 0]
    ELSE s

\* this.tooltipShowTimeout = setTimeout(() => { ... }, 50)
scheduleShow(s, dot) ==
    LET id == FreshId(s)
    IN  [s EXCEPT !.tooltipShowTimeout = id,
                  !.timers = @ \cup {Timer(id, "show", NoArea, dot)}]

\* if (this.tooltipHideTimeout) return; this.tooltipHideTimeout = setTimeout(...)
scheduleHide(s) ==
    IF s.tooltipHideTimeout # 0 THEN s
    ELSE LET id == FreshId(s)
         IN  [s EXCEPT !.tooltipHideTimeout = id,
                       !.timers = @ \cup {Timer(id, "hide", NoArea, NoDot)}]

Called(s, method) == [s EXCEPT !.lastTooltipCall = method]

\* Tooltip.show(event, d)
Tooltip_show(s, dot) ==
    IF s.isAnimating THEN Called(s, "show")
    ELSE scheduleShow(cancelShow(cancelHide(Called(s, "show"))), dot)

\* Tooltip.showCustom(event, content)
Tooltip_showCustom(s, content) ==
    IF s.isAnimating THEN Called(s, "showCustom")
    ELSE [cancelShow(cancelHide(Called(s, "showCustom")))
             EXCEPT !.tooltipHidden = FALSE, !.tooltipContent = content]

\* faulty variant: a pending show timer is left pending
Tooltip_hide_KeepsShowTimer(s) == scheduleHide(Called(s, "hide"))

\* Tooltip.hide()
Tooltip_hide(s) == scheduleHide(cancelShow(Called(s, "hide")))

-----------------------------------------------------------------------------
(* MiniMap and the zoom handler of MainMap.  A zoom scale k is counted in     *)
(* tenths; of a transform the scale k and the horizontal translation x are    *)
(* kept (y is computed as x is).                                              *)

\* MAP_CONFIG.zoomThreshold, minZoom, maxZoom (in tenths) and mainWidth
zoomThreshold == 15
minZoom == 10
maxZoom == 80
mainWidth == 1200

NoTransform == [null |-> TRUE]
Transform(k, x) == [k |-> k, x |-> x]
\* d3.zoomIdentity
zoomIdentity == Transform(10, 0)

NoSelection == [null |-> TRUE]
Selection(centerX) == [centerX |-> centerX]

\* MiniMap.updateVisibility
MiniMap_updateVisibility(s) ==
    [s EXCEPT !.minimapVisible = (s.currentZoom >= zoomThreshold)]

\* faulty variant: the brush pan zooms to the threshold scale
brushScale_Threshold(current) == zoomThreshold

\* const k = current.k
brushScale(current) == current.k

\* handleBrush past the updatingBrush test: pan the main map to the selection
panToSelection(s, selection) ==
    IF selection = NoSelection THEN s
    ELSE LET current == IF s.currentTransform # NoTransform
                        THEN s.currentTransform ELSE s.zoomTransform
             k == brushScale(current)
             newX == (mainWidth \div 2) - ((k * selection.centerX) \div 10)
         IN  [s EXCEPT !.currentTransform = Transform(k, newX),
                       !.currentZoom = k,
                       !.isAnimating = TRUE,
                       !.tooltipHidden = TRUE,
                       !.timers = @ \cup {Timer(UnkeptId(s, "animationEnd"), "animationEnd", NoArea, NoDot)}]

\* faulty variant: no test of updatingBrush
MiniMap_handleBrush_NoGuard(s, selection) == panToSelection(s, selection)

\* MiniMap.handleBrush(event), the listener of the brush's "end" event
MiniMap_handleBrush(s, selection) ==
    IF s.updatingBrush THEN s ELSE panToSelection(s, selection)

\* the brush selection updateViewport computes from the corners of the main map
viewportSelection(transform) ==
    Selection((((mainWidth \div 2) - transform.x) * 10) \div transform.k)

\* setTimeout(() => { this.mapState.setUpdatingBrush(false); }, 0)
resetFlagLater(s) ==
    [s EXCEPT !.timers = @ \cup {Timer(UnkeptId(s, "brushReset"), "brushReset", NoArea, NoDot)}]

\* MiniMap.updateViewport; brush.move dispatches the "end" event before it returns
MiniMap_updateViewport(s) ==
    IF s.currentTransform = NoTransform THEN s
    ELSE resetFlagLater(
             MiniMap_handleBrush([s EXCEPT !.updatingBrush = TRUE],
                                 viewportSelection(s.currentTransform)))

\* if (window.miniMapInstance) { updateVisibility(); updateViewport(); }
afterZoom(s) == MiniMap_updateViewport(MiniMap_updateVisibility(s))

\* the "zoom" listener of mainZoom; d3 has stored event.transform on the svg
MainMap_onZoom(s, transform) ==
    afterZoom([s EXCEPT !.zoomTransform = transform,
                        !.currentTransform = transform,
                        !.currentZoom = transform.k])

\* MapState.reset
MapState_reset(s) ==
    [s EXCEPT !.selectedNeighbourhood = NoArea,
              !.currentZoom = 10,
              !.currentTransform = NoTransform,
              !.updatingBrush = FALSE,
              !.isAnimating = FALSE]

-----------------------------------------------------------------------------
(* MainMap: filters, dots, statistics panel *)

mainCuisineTypes ==
    { "Restaurant", "Food Take Out", "Food Store (Convenience/Variety)",
      "Food Court Vendor", "Supermarket", "Bakery", "Food Caterer",
      "Banquet Facility", "Butcher Shop" }

\* const severityOrder = { 'clean': 0, 'M': 1, 'S': 2, 'C': 3 }
severityOrder(key) ==
    CASE key = "clean" -> 0
      [] key = "M" -> 1
      [] key = "S" -> 2
      [] key = "C" -> 3

statusMatch(filters, d) == filters.status = "all" \/ d.Status = filters.status
healthGradeMatch(filters, d) ==
    filters.healthGrade = "all" \/ d.healthGrade = filters.healthGrade
severityMatch(filters, d) ==
    filters.severity = "all"
        \/ severityOrder(d.worstSeverity) <= severityOrder(filters.severity)

\* the callback of mergedData.filter in getFilteredData
passesMapFilters(filters, d) ==
    /\ statusMatch(filters, d)
    /\ healthGradeMatch(filters, d)
    /\ \/ filters.cuisine = "all"
       \/ filters.cuisine = "other" /\ d.Type \notin mainCuisineTypes
       \/ filters.cuisine # "other" /\ d.Type = filters.cuisine
    /\ severityMatch(filters, d)

\* the callback of mergedData.filter in showGlobalStats
passesStatsFilters(filters, d) ==
    /\ statusMatch(filters, d)
    /\ healthGradeMatch(filters, d)
    /\ (filters.cuisine = "all" \/ d.Type = filters.cuisine)
    /\ severityMatch(filters, d)

\* MainMap.getFilteredData: Array.prototype.filter returns a new array
MainMap_getFilteredData(s) ==
    SelectSeq(mergedData, LAMBDA d : passesMapFilters(s.filters, d))

inArea(data, area) == SelectSeq(data, LAMBDA resto : geoContains(area, resto))

\* MainMap.drawAllRestaurants and drawRestaurantsInNeighbourhood: the circles
\* joined to the records
drawRestaurants(s, restaurants) == [s EXCEPT !.dots = restaurants]

\* mainSvg.select("#restaurant-dots").selectAll("*").remove()
removeDots(s) == [s EXCEPT !.dots = <<>>]

\* MainMap.showStatsPanel(neighbourhoodName, restaurants)
MainMap_showStatsPanel(s, restaurants) ==
    [s EXCEPT !.statsHidden = FALSE, !.statsRecords = restaurants,
              !.viewDetailsShown = TRUE]

\* MainMap.showGlobalStats
MainMap_showGlobalStats(s) ==
    [s EXCEPT !.statsHidden = FALSE,
              !.statsRecords =
                  SelectSeq(mergedData, LAMBDA d : passesStatsFilters(s.filters, d)),
              !.viewDetailsShown = FALSE]

\* MainMap.updateWithFilters
MainMap_updateWithFilters(s) ==
    IF s.showDots THEN drawRestaurants(s, MainMap_getFilteredData(s)) ELSE removeDots(s)

\* MainMap.handleNeighbourhoodClick(event, feature)
MainMap_handleNeighbourhoodClick(s, area) ==
    LET s1 == [s EXCEPT !.selectedNeighbourhood = area]
        restaurantsInArea == inArea(MainMap_getFilteredData(s1), area)
        s2 == IF s1.showDots THEN drawRestaurants(s1, restaurantsInArea) ELSE s1
    IN  MainMap_showStatsPanel(s2, restaurantsInArea)

\* MainMap.closeStatsPanel
MainMap_closeStatsPanel(s) ==
    [removeDots(s) EXCEPT !.statsHidden = TRUE, !.selectedNeighbourhood = NoArea]

\* MainMap.resetToAllData
MainMap_resetToAllData(s) ==
    LET s1 == removeDots([s EXCEPT !.selectedNeighbourhood = NoArea])
        s2 == IF s1.showDots THEN drawRestaurants(s1, MainMap_getFilteredData(s1)) ELSE s1
    IN  MainMap_showGlobalStats(s2)

\* MapManager.reset
MapManager_reset(s) == MainMap_resetToAllData(MapState_reset(s))

\* the "change" listener of the selects and of #show-dots (bindFilterEvents)
onFilterChange(s) ==
    IF s.selectedNeighbourhood = NoArea
    THEN MainMap_showGlobalStats(MainMap_updateWithFilters(s))
    ELSE IF s.showDots
         THEN MainMap_handleNeighbourhoodClick(s, s.selectedNeighbourhood)
         ELSE removeDots(s)

-----------------------------------------------------------------------------
(* MainMap: hovering neighbourhoods and dots *)

RECURSIVE SumScores(_)
SumScores(data) ==
    IF data = <<>> THEN 0 ELSE Head(data).healthScore + SumScores(Tail(data))

\* d3.mean(restaurantsInArea, d => d.healthScore).toFixed(1), or 'N/A'
avgHealthScore(area) ==
    LET restaurantsInArea == inArea(mergedData, area)
        n == Len(restaurantsInArea)
    IN  IF n > 0 THEN (20 * SumScores(restaurantsInArea) + n) \div (2 * n)
        ELSE NotAvailable

\* MainMap.showNeighbourhoodTooltip
MainMap_showNeighbourhoodTooltip(s, area, avg) ==
    Tooltip_showCustom(s, AreaContent(area, avg))

\* if (this.lastHoverTimeout) { clearTimeout(this.lastHoverTimeout); }
clearHover(s) ==
    IF s.lastHoverTimeout # 0
    THEN [s EXCEPT !.timers = clearTimeout(@, s.lastHoverTimeout)]
    ELSE s

\* ... this.lastHoverTimeout = null;
cancelHover(s) == [clearHover(s) EXCEPT !.lastHoverTimeout = 0]

\* handleNeighbourhoodMouseover past the clearTimeout
hoverNeighbourhood(s, area) ==
    LET s1 == Tooltip_hide(s)
    IN  IF area \in DOMAIN s1.neighbourhoodStatsCache
        THEN MainMap_showNeighbourhoodTooltip(s1, area, s1.neighbourhoodStatsCache[area])
        ELSE LET s2 == MainMap_showNeighbourhoodTooltip(s1, area, Blank)
                 id == FreshId(s2)
             IN  [s2 EXCEPT !.lastHoverTimeout = id,
                            !.timers = @ \cup {Timer(id, "hover", area, NoDot)}]

\* faulty variant: the pending computation is not cleared
MainMap_handleNeighbourhoodMouseover_NoClear(s, area) == hoverNeighbourhood(s, area)

\* MainMap.handleNeighbourhoodMouseover(event, feature)
MainMap_handleNeighbourhoodMouseover(s, area) == hoverNeighbourhood(clearHover(s), area)

\* the callback of the timer of handleNeighbourhoodMouseover
hoverComputation(s, area) ==
    LET avg == avgHealthScore(area)
        cache == s.neighbourhoodStatsCache
    IN  MainMap_showNeighbourhoodTooltip(
            [s EXCEPT !.neighbourhoodStatsCache =
                          [a \in DOMAIN cache \cup {area} |->
                              IF a = area THEN avg ELSE cache[a]]],
            area, avg)

\* the "pointer" listener of a neighbourhood path
onNeighbourhoodMouseleave(s) == Tooltip_hide(cancelHover(s))

\* the position in mergedData of the record of a dot
PositionOf(d) ==
    CHOOSE k \in DOMAIN mergedData :
        mergedData[k] = d /\ \A j \in 1..(k - 1) : mergedData[j] # d

\* the "pointer" listener of a restaurant dot
onDotMouseenter(s, d) == Tooltip_show(Tooltip_hide(cancelHover(s)), PositionOf(d))

\* the "pointer" listener of a restaurant dot
onDotMouseleave(s) == Tooltip_hide(s)

-----------------------------------------------------------------------------
(* The map page: its state after MapManager.init, the events of the page and  *)
(* the callbacks of its timers.  ui.pointer (the element the pointer entered  *)
(* last) and ui.event (the event handled last) record the history; no handler *)
(* reads them.  An event is named by its kind ("pointer", "timer", "zoom").  *)

AllFilters == [status |-> "all", healthGrade |-> "all", cuisine |-> "all", severity |-> "all"]

\* the values of the four selects the model chooses from
FilterChoices ==
    [ status : {"all", "Pass"}, healthGrade : {"all", "A"},
      cuisine : {"all", "other", "Restaurant"}, severity : {"all", "M"} ]

\* new MapState(), new MainMap(...), initTooltip(...) and the DOM before the first render
NewMapPage(filters, showDots) ==
    [ shown |-> TRUE,
      selectedNeighbourhood |-> NoArea,
      currentZoom |-> 10,
      currentTransform |-> NoTransform,
      updatingBrush |-> FALSE,
      isAnimating |-> FALSE,
      tooltipShowTimeout |-> 0,
      tooltipHideTimeout |-> 0,
      lastHoverTimeout |-> 0,
      neighbourhoodStatsCache |-> <<>>,
      timers |-> {},
      tooltipHidden |-> TRUE,
      tooltipContent |-> NoContent,
      minimapVisible |-> FALSE,
      zoomTransform |-> zoomIdentity,
      filters |-> filters,
      showDots |-> showDots,
      dots |-> <<>>,
      statsHidden |-> TRUE,
      statsRecords |-> <<>>,
      viewDetailsShown |-> FALSE,
      lastTooltipCall |-> "none",
      pointer |-> "none",
      event |-> "init" ]

\* MapManager.init past the construction: the initial render
MapManager_init(filters, showDots) ==
    MainMap_showGlobalStats(MainMap_updateWithFilters(NewMapPage(filters, showDots)))

\* what the map page leaves alone: the loader and the cards page
mapFrame == <<op, pc, dinesafeJson, yelpData, restaurantsOnly, sampledDinesafe,
              picked, scoreArg, gradeRet, loadVars, cards>>

\* the page script called initMap(geo, mergedData) with n records
MapShown(n, filters, showDots) ==
    /\ op = "initMap"
    /\ pc = "done"
    /\ mergedData = MapData(n)
    /\ ui = MapManager_init(filters, showDots)
    /\ cards = NoCards
    /\ dinesafeJson = <<>>
    /\ yelpData = EmptyArray
    /\ restaurantsOnly = <<>>
    /\ sampledDinesafe = <<>>
    /\ picked = <<>>
    /\ scoreArg = 0
    /\ gradeRet = NoGrade
    /\ files = [geo |-> NoGeo, dinesafe |-> <<>>, yelp |-> EmptyArray]
    /\ sessionStorage = EmptyStorage
    /\ fetches = [r \in Resources |-> "none"]
    /\ arrival = <<>>
    /\ page = NewPage(0)
    /\ geoResult = Neighbourhoods
    /\ previous = NoPrevious

\* an event of the map page handled by a handler that takes ui to next
MapEvent(name, next) ==
    /\ ui # NoUi
    /\ ui' = [next EXCEPT !.event = name]
    /\ UNCHANGED <<mergedData, mapFrame>>

\* the timer t fires: it is no longer pending when its callback runs
Fired(t) == [ui EXCEPT !.timers = @ \ {t}]

\* "pointer" of a neighbourhood path
NeighbourhoodMouseenter ==
    /\ ui # NoUi
    /\ \E area \in AreaNames :
          MapEvent("pointer",
                   [MainMap_handleNeighbourhoodMouseover(ui, area) EXCEPT !.pointer = area])

\* "pointer" of a neighbourhood path
NeighbourhoodMouseleave ==
    /\ ui # NoUi
    /\ ui.pointer \in AreaNames
    /\ MapEvent("pointer", [onNeighbourhoodMouseleave(ui) EXCEPT !.pointer = "none"])

\* "pointer" of a restaurant dot
DotMouseenter ==
    /\ ui # NoUi
    /\ \E k \in DOMAIN ui.dots :
          MapEvent("pointer", [onDotMouseenter(ui, ui.dots[k]) EXCEPT !.pointer = "dot"])

\* "pointer" of a restaurant dot
DotMouseleave ==
    /\ ui # NoUi
    /\ ui.pointer = "dot"
    /\ MapEvent("pointer", [onDotMouseleave(ui) EXCEPT !.pointer = "none"])

\* the callback of the timer of Tooltip.show: it fills the tooltip and unhides it
ShowTimerFires ==
    /\ ui # NoUi
    /\ \E t \in TimersOf(ui, "show") :
          MapEvent("timer",
                   [Fired(t) EXCEPT !.tooltipHidden = FALSE,
                                    !.tooltipContent = DotContent(t.dot)])

\* the callback of the timer of Tooltip.hide
HideTimerFires ==
    /\ ui # NoUi
    /\ \E t \in TimersOf(ui, "hide") :
          MapEvent("timer",
                   [Fired(t) EXCEPT !.tooltipHidden = TRUE, !.tooltipHideTimeout = 0])

\* the callback of the timer of handleNeighbourhoodMouseover
HoverTimerFires ==
    /\ ui # NoUi
    /\ \E t \in TimersOf(ui, "hover") :
          MapEvent("timer", hoverComputation(Fired(t), t.area))

\* the callback of the timer of updateViewport: setUpdatingBrush(false)
BrushResetFires ==
    /\ ui # NoUi
    /\ \E t \in TimersOf(ui, "brushReset") :
          MapEvent("timer", [Fired(t) EXCEPT !.updatingBrush = FALSE])

\* the callback of the timer of handleBrush: updateViewport(); setAnimating(false)
AnimationEndFires ==
    /\ ui # NoUi
    /\ Cardinality(TimersOf(ui, "brushReset")) < MaxTimers
    /\ \E t \in TimersOf(ui, "animationEnd") :
          MapEvent("timer",
                   [MiniMap_updateViewport(Fired(t)) EXCEPT !.isAnimating = FALSE])

\* the transforms of the zoom events the model chooses from
ZoomTransforms ==
    { Transform(minZoom, 0), Transform(14, -240), Transform(zoomThreshold, -300),
      Transform(20, -600) }

\* a "zoom" event of mainZoom (wheel, drag, or the double-click reset)
Zoom ==
    /\ ui # NoUi
    /\ Cardinality(TimersOf(ui, "brushReset")) < MaxTimers
    /\ \E transform \in ZoomTransforms : MapEvent("zoom", MainMap_onZoom(ui, transform))

\* the centres of the brush selections the model chooses from
BrushSelections == {NoSelection, Selection(300), Selection(600)}

\* a brush event of the minimap made by the user
UserBrush ==
    /\ ui # NoUi
    /\ Cardinality(TimersOf(ui, "animationEnd")) < MaxTimers
    /\ \E selection \in BrushSelections :
          MapEvent("brush", MiniMap_handleBrush(ui, selection))

\* a call of MapManager.reset()
MapReset ==
    /\ ui # NoUi
    /\ MapEvent("reset", MapManager_reset(ui))

-----------------------------------------------------------------------------
(* Specification of the tooltip: the pointer moves over neighbourhoods and   *)
(* dots while the user brushes the minimap and the timers fire.               *)

InitTooltip == MapShown(MaxMapRecords, AllFilters, TRUE)

NextTooltip ==
    \/ NeighbourhoodMouseenter
    \/ NeighbourhoodMouseleave
    \/ DotMouseenter
    \/ DotMouseleave
    \/ ShowTimerFires
    \/ HideTimerFires
    \/ HoverTimerFires
    \/ UserBrush
    \/ AnimationEndFires
    \/ BrushResetFires

SpecTooltip == InitTooltip /\ [][NextTooltip]_vars

-----------------------------------------------------------------------------
(* Specification of the minimap: zoom events, brushes of the user and        *)
(* MapManager.reset, with the timers of the minimap.                          *)

InitMini == \E showDots \in BOOLEAN : MapShown(MaxMapRecords, AllFilters, showDots)

NextMini ==
    \/ Zoom
    \/ UserBrush
    \/ MapReset
    \/ AnimationEndFires
    \/ BrushResetFires

SpecMini == InitMini /\ [][NextMini]_vars

\* a timer that is due fires: the event loop runs its callback
FairMini == WF_vars(BrushResetFires) /\ WF_vars(AnimationEndFires)

SpecMiniFair == SpecMini /\ FairMini

-----------------------------------------------------------------------------
(* The statistics panel of the map page and the way to the cards page *)

\* a "change" event of one of the four selects
FilterChange ==
    /\ ui # NoUi
    /\ \E filters \in FilterChoices :
          /\ Cardinality({f \in DOMAIN filters : filters[f] # ui.filters[f]}) = 1
          /\ MapEvent("change", onFilterChange([ui EXCEPT !.filters = filters]))

\* a "change" event of the checkbox #show-dots
ShowDotsChange ==
    /\ ui # NoUi
    /\ MapEvent("change", onFilterChange([ui EXCEPT !.showDots = ~@]))

\* "click" of a neighbourhood path
NeighbourhoodClick ==
    /\ ui # NoUi
    /\ \E area \in AreaNames : MapEvent("click", MainMap_handleNeighbourhoodClick(ui, area))

\* the close button of the statistics panel: closeStatsPanel()
CloseStatsPanel ==
    /\ ui # NoUi
    /\ ~ui.statsHidden
    /\ MapEvent("close", MainMap_closeStatsPanel(ui))

\* resetToAllData()
ResetToAllData ==
    /\ ui # NoUi
    /\ MapEvent("resetView", MainMap_resetToAllData(ui))

\* JSON.stringify and JSON.parse of a number
numberProperty(n) == [has |-> TRUE, v |-> n]
readNumber(prop) == prop.v

\* of yelpMatch: undefined is left out, null is kept, a review record is an object
matchProperty(v) ==
    IF v = JsUndefined THEN [has |-> FALSE]
    ELSE IF v = JsNull THEN [has |-> TRUE, isNull |-> TRUE]
    ELSE [has |-> TRUE, isNull |-> FALSE, v |-> stringifyReview(v)]

readMatch(prop) ==
    IF ~prop.has THEN JsUndefined
    ELSE IF prop.isNull THEN JsNull
    ELSE parseReview(prop.v)

stringifyEnriched(d) ==
    [ Name          |-> textProperty(d.Name),
      Type          |-> stringProperty(d.Type),
      Status        |-> stringProperty(d.Status),
      Severity      |-> textProperty(d.Severity),
      Latitude      |-> textProperty(d.Latitude),
      Longitude     |-> textProperty(d.Longitude),
      yelpMatch     |-> matchProperty(d.yelpMatch),
      healthScore   |-> numberProperty(d.healthScore),
      healthGrade   |-> stringProperty(d.healthGrade),
      worstSeverity |-> stringProperty(d.worstSeverity) ]

parseEnriched(o) ==
    [ Name          |-> readText(o.Name),
      Type          |-> readString(o.Type),
      Status        |-> readString(o.Status),
      Severity      |-> readText(o.Severity),
      Latitude      |-> readText(o.Latitude),
      Longitude     |-> readText(o.Longitude),
      yelpMatch     |-> readMatch(o.yelpMatch),
      healthScore   |-> readNumber(o.healthScore),
      healthGrade   |-> readString(o.healthGrade),
      worstSeverity |-> readString(o.worstSeverity) ]

\* JSON.stringify(restaurants) of the click listener of #view-details-btn
stringifyRestaurants(restaurants) ==
    [json |-> "array",
     elems |-> [k \in 1..Len(restaurants) |-> stringifyEnriched(restaurants[k])]]

\* JSON.parse(restaurantsJSON) of initCards
parseRestaurants(text) == [k \in 1..Len(text.elems) |-> parseEnriched(text.elems[k])]

-----------------------------------------------------------------------------
(* The cards page: cards.js *)

\* const ITEMS_PER_PAGE = 12, scaled down
ITEMS_PER_PAGE == 2

\* Math.ceil(n / ITEMS_PER_PAGE)
totalPagesOf(n) == (n + ITEMS_PER_PAGE - 1) \div ITEMS_PER_PAGE

\* !!restaurant.yelpMatch
hasYelpMatch(restaurant) == restaurant.yelpMatch \notin {JsUndefined, JsNull}

DigitValue(c) == (CHOOSE k \in DOMAIN DigitChars : DigitChars[k] = c) - 1

\* parseFloat of a rating, in tenths; the ratings of the data read <digit>.<digit>
parseFloatTenths(text) == 10 * DigitValue(text[1]) + DigitValue(text[3])

\* the rank of a character in the collation of localeCompare (capital letters)
CollationRank(c) ==
    IF \E k \in DOMAIN UpperCase : UpperCase[k] = c
    THEN CHOOSE k \in DOMAIN UpperCase : UpperCase[k] = c
    ELSE 0

\* a.localeCompare(b): below 0, 0 or above 0
RECURSIVE localeCompare(_, _)
localeCompare(a, b) ==
    IF a = <<>> /\ b = <<>> THEN 0
    ELSE IF a = <<>> THEN -1
    ELSE IF b = <<>> THEN 1
    ELSE IF CollationRank(Head(a)) # CollationRank(Head(b))
         THEN CollationRank(Head(a)) - CollationRank(Head(b))
         ELSE localeCompare(Tail(a), Tail(b))

ratingOf(restaurant) ==
    IF hasYelpMatch(restaurant) THEN parseFloatTenths(restaurant.yelpMatch.avg_rating) ELSE 0

\* the comparator of filteredRestaurants.sort
compareCards(sortBy, a, b) ==
    CASE sortBy = "healthScore" -> b.healthScore - a.healthScore
      [] sortBy = "yelpRating" -> ratingOf(b) - ratingOf(a)
      [] OTHER -> localeCompare(a.Name, b.Name)

\* r put into the sorted array after the elements that do not come after it
RECURSIVE insertSorted(_, _, _)
insertSorted(sortBy, sorted, r) ==
    IF sorted = <<>> THEN <<r>>
    ELSE IF compareCards(sortBy, Head(sorted), r) <= 0
         THEN <<Head(sorted)>> \o insertSorted(sortBy, Tail(sorted), r)
         ELSE <<r>> \o sorted

\* Array.prototype.sort with the comparator: a stable sort
RECURSIVE sortCards(_, _)
sortCards(sortBy, array) ==
    IF array = <<>> THEN <<>>
    ELSE insertSorted(sortBy, sortCards(sortBy, SubSeq(array, 1, Len(array) - 1)),
                      array[Len(array)])

\* the callback of allRestaurants.filter
passesCardFilters(filters, restaurant) ==
    /\ filters.establishmentType = "all" \/ restaurant.Type = filters.establishmentType
    /\ filters.yelpOnly => hasYelpMatch(restaurant)

\* faulty variant: the records are removed from allRestaurants itself
filterCards_InPlace(all, filters) ==
    [ items |-> SelectSeq(all, LAMBDA r : passesCardFilters(filters, r)), isNew |-> FALSE ]

\* allRestaurants.filter(...): the records kept, in an array of their own
filterCards(all, filters) ==
    [ items |-> SelectSeq(all, LAMBDA r : passesCardFilters(filters, r)), isNew |-> TRUE ]

\* applyFiltersAndSort: sort works on the array filter returned, in place
applyFiltersAndSort(c) ==
    LET filtered == filterCards(c.allRestaurants, c.currentFilters)
        sorted == sortCards(c.currentFilters.sortBy, filtered.items)
    IN  [c EXCEPT !.filteredRestaurants = sorted,
                  !.allRestaurants = IF filtered.isNew THEN @ ELSE sorted,
                  !.renderedPage = IF sorted = <<>> THEN 0 ELSE c.currentPage]

\* the globals of cards.js when the script starts
NewCardsPage ==
    [ shown |-> TRUE,
      currentPage |-> 1,
      allRestaurants |-> <<>>,
      filteredRestaurants |-> <<>>,
      currentFilters |-> [establishmentType |-> "all", yelpOnly |-> TRUE, sortBy |-> "name"],
      renderedPage |-> 0 ]

\* initCards() with the item selectedRestaurants of sessionStorage
initCards(restaurantsJSON) ==
    applyFiltersAndSort([NewCardsPage EXCEPT !.allRestaurants = parseRestaurants(restaurantsJSON)])

\* handleFilterChange() with the values of the three controls
handleFilterChange(c, filters) ==
    applyFiltersAndSort([c EXCEPT !.currentFilters = filters, !.currentPage = 1])

\* goToPage(page), the page number being pageNo
goToPage(c, pageNo) ==
    LET totalPages == totalPagesOf(Len(c.allRestaurants))
    IN  IF pageNo < 1 \/ pageNo > totalPages THEN c
        ELSE [c EXCEPT !.currentPage = pageNo, !.renderedPage = pageNo]

\* what the cards page leaves alone
cardsFrame == <<op, pc, dinesafeJson, yelpData, restaurantsOnly, sampledDinesafe,
                picked, mergedData, scoreArg, gradeRet, loadVars>>

\* "click" of #view-details-btn: the records of the panel go to sessionStorage
\* and the browser loads cards.html, whose script calls initCards()
ViewDetails ==
    /\ ui # NoUi
    /\ ~ui.statsHidden
    /\ ui.viewDetailsShown
    /\ ui' = NoUi
    /\ cards' = initCards(stringifyRestaurants(ui.statsRecords))
    /\ UNCHANGED cardsFrame

\* the options of #type-filter: 'all' and the types of allRestaurants
TypeOptions(c) ==
    {"all"} \cup {c.allRestaurants[k].Type : k \in DOMAIN c.allRestaurants}

\* a "change" event of one of the three controls of the cards page
CardsFilterChange ==
    /\ cards # NoCards
    /\ \E filters \in [ establishmentType : TypeOptions(cards), yelpOnly : BOOLEAN,
                        sortBy : {"name", "healthScore", "yelpRating"} ] :
          cards' = handleFilterChange(cards, filters)
    /\ UNCHANGED <<ui, cardsFrame>>

\* a call of goToPage
GoToPage ==
    /\ cards # NoCards
    /\ \E pageNo \in 0..(totalPagesOf(Len(cards.allRestaurants)) + 1) :
          cards' = goToPage(cards, pageNo)
    /\ UNCHANGED <<ui, cardsFrame>>

-----------------------------------------------------------------------------
(* Specification of browsing: filters, clicks and the statistics panel of    *)
(* the map page, then the cards page of a neighbourhood.                      *)

InitBrowse == \E showDots \in BOOLEAN : MapShown(MaxMapRecords, AllFilters, showDots)

NextBrowse ==
    \/ FilterChange
    \/ ShowDotsChange
    \/ NeighbourhoodClick
    \/ NeighbourhoodMouseenter
    \/ NeighbourhoodMouseleave
    \/ HoverTimerFires
    \/ HideTimerFires
    \/ CloseStatsPanel
    \/ ResetToAllData
    \/ ViewDetails
    \/ CardsFilterChange
    \/ GoToPage

SpecBrowse == InitBrowse /\ [][NextBrowse]_vars

-----------------------------------------------------------------------------
(* Properties of the scoring functions *)

Returned == op = "processData" /\ pc = "done"

\* the severity text of a record; a missing field contains nothing
SeverityText(d) == IF d.Severity = undefined THEN EmptyString ELSE d.Severity

StatusDeduction(d) ==
    CASE d.Status = "Closed" -> 100
      [] d.Status = "Conditional Pass" -> 30
      [] OTHER -> 0

SeverityDeduction(d) ==
    CASE includes(SeverityText(d), C_Crucial) -> 40
      [] ~includes(SeverityText(d), C_Crucial)
           /\ includes(SeverityText(d), S_Significant) -> 20
      [] ~includes(SeverityText(d), C_Crucial)
           /\ ~includes(SeverityText(d), S_Significant)
           /\ includes(SeverityText(d), M_Minor) -> 10
      [] OTHER -> 0

\* C1: every record's healthScore is max(0, 100 - s - v), s the deduction of its
\* status (Closed 100, Conditional Pass 30, else 0) and v the deduction of the
\* first of Crucial (40), Significant (20), Minor (10) its severity text
\* contains; Conditional Pass with clean severity scores 70; Pass with only
\* "M - Minor" scores 90 and has grade A.
C1_HealthScoreFormula ==
    Returned =>
        \A k \in DOMAIN mergedData :
            LET d == mergedData[k]
            IN  /\ d.healthScore = Max(0, 100 - StatusDeduction(d) - SeverityDeduction(d))
                /\ (d.Status = "Conditional Pass" /\ SeverityDeduction(d) = 0
                        => d.healthScore = 70)
                /\ (d.Status = "Pass" /\ SeverityDeduction(d) = 10
                        => d.healthScore = 90 /\ d.healthGrade = "A")

C1_Witness ==
    /\ Returned
    /\ \E k \in DOMAIN mergedData :
          /\ mergedData[k].Status = "Conditional Pass"
          /\ includes(SeverityText(mergedData[k]), M_Minor)
          /\ includes(SeverityText(mergedData[k]), C_Crucial)
          /\ mergedData[k].healthScore = 30

\* C2: a record whose status is "Closed" has healthScore 0 whatever its
\* severity text is.
C2_ClosedScoresZero ==
    Returned =>
        \A k \in DOMAIN mergedData :
            mergedData[k].Status = "Closed" => mergedData[k].healthScore = 0

C2_Witness ==
    /\ Returned
    /\ \E k \in DOMAIN mergedData :
          /\ mergedData[k].Status = "Closed"
          /\ includes(SeverityText(mergedData[k]), C_Crucial)
          /\ mergedData[k].healthScore = 0

GradeOf(score) ==
    CASE score >= 90 -> "A"
      [] score \in 75..89 -> "B"
      [] score \in 60..74 -> "C"
      [] score < 60 -> "D"

\* C3: getHealthGrade gives A from 90 up, B for 75..89, C for 60..74 and D
\* below 60 (90 is A, 89 B, 75 B, 74 C, 60 C, 59 D), and every output record's
\* healthGrade is the grade of its own healthScore.
C3_GradeThresholds ==
    /\ (op = "getHealthGrade" /\ pc = "done") =>
          /\ gradeRet = GradeOf(scoreArg)
          /\ (scoreArg = 90 => gradeRet = "A")
          /\ (scoreArg = 89 => gradeRet = "B")
          /\ (scoreArg = 75 => gradeRet = "B")
          /\ (scoreArg = 74 => gradeRet = "C")
          /\ (scoreArg = 60 => gradeRet = "C")
          /\ (scoreArg = 59 => gradeRet = "D")
    /\ Returned =>
          \A k \in DOMAIN mergedData :
              mergedData[k].healthGrade = GradeOf(mergedData[k].healthScore)

C3_Witness ==
    /\ op = "getHealthGrade"
    /\ pc = "done"
    /\ scoreArg = 75
    /\ gradeRet = "B"

\* C4: every output record has healthScore an integer in 0..100, healthGrade
\* one of A, B, C, D and worstSeverity one of clean, M, S, C, whatever the
\* status and the severity text of the input are, missing ones included.
C4_DerivedFieldRanges ==
    Returned =>
        \A k \in DOMAIN mergedData :
            /\ mergedData[k].healthScore \in 0..100
            /\ mergedData[k].healthGrade \in {"A", "B", "C", "D"}
            /\ mergedData[k].worstSeverity \in {"clean", "M", "S", "C"}

C4_Witness ==
    /\ Returned
    /\ \E k \in DOMAIN mergedData :
          /\ mergedData[k].Status = "undefined"
          /\ mergedData[k].Severity = undefined
          /\ mergedData[k].healthScore = 100

TierDeduction(tier) ==
    CASE tier = "C" -> 40
      [] tier = "S" -> 20
      [] tier = "M" -> 10
      [] tier = "clean" -> 0

\* no review record carries the name of d, up to surrounding white space and case
NoMatchingReview(d) ==
    \/ ~yelpData.isArray
    \/ d.Name \in {EmptyString, undefined}
    \/ \A k \in DOMAIN yelpData.items :
          \/ yelpData.items[k].RestaurantName \in {EmptyString, undefined}
          \/ toLowerCase(trim(yelpData.items[k].RestaurantName))
                # toLowerCase(trim(d.Name))

\* C5: worstSeverity is C if the severity text contains "C - Crucial", else S
\* if it contains "S - Significant", else M if it contains "M - Minor", else
\* clean (also for a missing severity), and it names the tier whose deduction
\* the healthScore carries; status Pass with severity "S - Significant found"
\* and no matching review gives 80, B, S and no matched review.
C5_WorstSeverityTier ==
    Returned =>
        \A k \in DOMAIN mergedData :
            LET d == mergedData[k]
                text == SeverityText(d)
            IN  /\ d.worstSeverity =
                      (IF includes(text, C_Crucial) THEN "C"
                       ELSE IF includes(text, S_Significant) THEN "S"
                       ELSE IF includes(text, M_Minor) THEN "M"
                       ELSE "clean")
                /\ (d.Severity = undefined => d.worstSeverity = "clean")
                /\ d.healthScore =
                      Max(0, 100 - StatusDeduction(d) - TierDeduction(d.worstSeverity))
                /\ (/\ d.Status = "Pass"
                    /\ d.Severity = S_Significant \o Found
                    /\ NoMatchingReview(d))
                   => /\ d.healthScore = 80
                      /\ d.healthGrade = "B"
                      /\ d.worstSeverity = "S"
                      /\ d.yelpMatch \in {JsNull, JsUndefined}

C5_Witness ==
    /\ Returned
    /\ \E k \in DOMAIN mergedData :
          /\ NoMatchingReview(mergedData[k])
          /\ mergedData[k].Name = Name_A
          /\ mergedData[k].Status = "Pass"
          /\ mergedData[k].Severity = S_Significant \o Found
          /\ mergedData[k].worstSeverity = "S"
          /\ mergedData[k].yelpMatch = JsUndefined

-----------------------------------------------------------------------------
(* Properties of the filters and of the sampling *)

\* the positions of dinesafeJson whose type is in the allow-list
AllowedPositions ==
    { k \in DOMAIN dinesafeJson : dinesafeJson[k].Type \in RESTAURANT_TYPES }

\* C6: every output record has an Establishment Type of the allow-list (never
\* "Supermarket", "Grocery Store" or a missing type, whatever its other fields
\* are), and the type filter comes before the sampling: the sample is drawn
\* from the records of allowed type alone.
C6_TypeFilter ==
    Returned =>
        /\ \A k \in DOMAIN mergedData :
              /\ mergedData[k].Type \in RESTAURANT_TYPES
              /\ mergedData[k].Type \notin {"Supermarket", "Grocery Store", "undefined"}
        /\ \A k \in DOMAIN sampledDinesafe :
              sampledDinesafe[k].Type \in RESTAURANT_TYPES
        /\ Len(sampledDinesafe) = Min(SAMPLE_SIZE, Cardinality(AllowedPositions))

C6_Witness ==
    /\ Returned
    /\ Len(dinesafeJson) > SAMPLE_SIZE
    /\ Cardinality(AllowedPositions) = SAMPLE_SIZE
    /\ Len(sampledDinesafe) = SAMPLE_SIZE
    /\ \E k \in DOMAIN dinesafeJson :
          /\ k <= SAMPLE_SIZE
          /\ dinesafeJson[k].Type = "Supermarket"
          /\ Truthy(dinesafeJson[k].Latitude)
          /\ Truthy(dinesafeJson[k].Longitude)

\* C7: a record whose latitude or longitude is the empty string or missing
\* is not in the output, whatever its other fields are.
C7_EmptyCoordinatesDropped ==
    Returned =>
        \A k \in DOMAIN mergedData :
            /\ mergedData[k].Latitude \notin {EmptyString, undefined}
            /\ mergedData[k].Longitude \notin {EmptyString, undefined}

C7_Witness ==
    /\ Returned
    /\ \E k \in DOMAIN sampledDinesafe :
          /\ sampledDinesafe[k].Latitude = EmptyString
          /\ sampledDinesafe[k].Longitude = Coordinate_m79_4
    /\ Len(mergedData) < Len(sampledDinesafe)

IsDigit(c) == \E k \in DOMAIN DigitChars : DigitChars[k] = c

\* a decimal numeral: an optional sign, digits, at most one decimal point
NumericParseable(s) ==
    /\ s # undefined
    /\ LET body == IF s # <<>> /\ Head(s) = "-" THEN Tail(s) ELSE s
       IN  /\ \E k \in DOMAIN body : IsDigit(body[k])
           /\ \A k \in DOMAIN body : IsDigit(body[k]) \/ body[k] = "."
           /\ Cardinality({ k \in DOMAIN body : body[k] = "." }) <= 1

\* C8: every output record has a latitude and a longitude that are non-empty
\* and numeric-parseable; a record with a non-empty, non-numeric latitude or
\* longitude is dropped.
C8_NumericCoordinates ==
    Returned =>
        \A k \in DOMAIN mergedData :
            /\ NumericParseable(mergedData[k].Latitude)
            /\ NumericParseable(mergedData[k].Longitude)

\* C9: randomSample returns its input (same length, members and order) when
\* the input has at most sampleSize elements, and exactly sampleSize elements
\* when it has more.
C9_SampleSize ==
    Returned =>
        /\ Len(restaurantsOnly) <= SAMPLE_SIZE => sampledDinesafe = restaurantsOnly
        /\ Len(restaurantsOnly) > SAMPLE_SIZE => Len(sampledDinesafe) = SAMPLE_SIZE

C9_Witness ==
    /\ Returned
    /\ Len(restaurantsOnly) > SAMPLE_SIZE
    /\ Len(sampledDinesafe) = SAMPLE_SIZE
    /\ sampledDinesafe # SubSeq(restaurantsOnly, 1, SAMPLE_SIZE)

\* C10: randomSample draws without replacement: whatever the random choices
\* are, the elements of the result come from pairwise distinct positions of
\* the input, and nothing else is returned.
C10_WithoutReplacement ==
    Returned =>
        /\ Len(picked) = Len(sampledDinesafe)
        /\ \A k \in DOMAIN picked :
              /\ picked[k] \in DOMAIN restaurantsOnly
              /\ sampledDinesafe[k] = restaurantsOnly[picked[k]]
        /\ \A k, m \in DOMAIN picked : k # m => picked[k] # picked[m]

C10_Witness ==
    /\ Returned
    /\ Len(restaurantsOnly) > SAMPLE_SIZE
    /\ Len(picked) = SAMPLE_SIZE
    /\ picked[1] > picked[SAMPLE_SIZE]
    /\ restaurantsOnly[picked[1]] = restaurantsOnly[picked[SAMPLE_SIZE]]

-----------------------------------------------------------------------------
(* Inputs of the join: review data of every kind *)

\* most review records in the review data
MaxReviews == 2

Name_Blank == <<" ">>
\* a name of n characters
LongName(n) == [k \in 1..n |-> "x"]
Name_16 == LongName(16)
Name_101 == LongName(101)

ReviewNames ==
    { Name_A, Name_a_padded, Name_B, Name_Blank, EmptyString, undefined,
      Name_16, Name_101 }

\* a review record with a rating carries a review count, one without does not
ReviewRecords ==
    { [ RestaurantName |-> n, avg_rating |-> Rating_4_5,
        num_of_reviews |-> JsString(<<"1", "2">>) ] : n \in ReviewNames }
    \cup
    { [ RestaurantName |-> n, avg_rating |-> a, num_of_reviews |-> JsUndefined ] :
        n \in ReviewNames, a \in {EmptyString, undefined} }

\* an inspection record of restaurant type with coordinates and the given name
NamedInspection(n) ==
    [ Name |-> n, Type |-> "Restaurant", Status |-> "Pass",
      Severity |-> EmptyString,
      Latitude |-> Coordinate_43_6, Longitude |-> Coordinate_m79_4 ]

JoinInspections ==
    { <<NamedInspection(n)>> :
        n \in {Name_A, Name_a_padded, Name_B, Name_Blank, EmptyString, undefined} }
    \cup { <<NamedInspection(Name_A), NamedInspection(Name_a_padded)>> }

\* a call processData(dinesafeJson, yelpData) on named inspection records and
\* review data that is not an array or holds up to MaxReviews review records
InitJoin ==
    /\ op = "processData"
    /\ pc = "start"
    /\ dinesafeJson \in JoinInspections
    /\ yelpData \in { [isArray |-> FALSE] }
                      \cup { [isArray |-> TRUE, items |-> items] :
                               items \in ArraysUpTo(ReviewRecords, MaxReviews) }
    /\ restaurantsOnly = <<>>
    /\ sampledDinesafe = <<>>
    /\ picked = <<>>
    /\ mergedData = <<>>
    /\ scoreArg = 0
    /\ gradeRet = NoGrade
    /\ NoPageLoad

NextJoin == ProcessData

SpecJoin == InitJoin /\ [][NextJoin]_vars

-----------------------------------------------------------------------------
(* Properties of the join and of the rating synthesis *)

\* the first position from i on, and the last position up to i, that holds
\* something other than white space
RECURSIVE FirstInner(_, _)
FirstInner(n, i) ==
    IF i > Len(n) \/ n[i] \notin WhiteSpace THEN i ELSE FirstInner(n, i + 1)

RECURSIVE LastInner(_, _)
LastInner(n, i) ==
    IF i < 1 \/ n[i] \notin WhiteSpace THEN i ELSE LastInner(n, i - 1)

\* a name without the white space before its first and after its last other character
Stripped(n) == SubSeq(n, FirstInner(n, 1), LastInner(n, Len(n)))

\* the join key of a name
NormalizedName(n) ==
    LET inner == Stripped(n) IN [i \in 1..Len(inner) |-> LowerChar(inner[i])]

\* the positions of the review records whose non-empty name has the join key of n
ReviewsNamed(n) ==
    { k \in DOMAIN yelpArray(yelpData).items :
        /\ yelpData.items[k].RestaurantName \notin {EmptyString, undefined}
        /\ NormalizedName(yelpData.items[k].RestaurantName) = NormalizedName(n) }

FirstOf(S) == CHOOSE k \in S : \A m \in S : k <= m

NoMatch == {JsNull, JsUndefined}

\* C11: the join keeps the first-seen review record of a normalized name: every
\* inspection record whose name has review records of the same normalized name
\* is matched to the one that comes first in the review input.
C11_FirstSeenReviewWins ==
    Returned =>
        \A k \in DOMAIN mergedData :
            LET d == mergedData[k]
            IN  (d.Name \notin {EmptyString, undefined} /\ ReviewsNamed(d.Name) # {})
                    => d.yelpMatch = yelpData.items[FirstOf(ReviewsNamed(d.Name))]

C11_Witness ==
    /\ Returned
    /\ Len(mergedData) = 2
    /\ Cardinality(ReviewsNamed(Name_A)) = 2
    /\ yelpData.items[1] # yelpData.items[2]
    /\ mergedData[1].yelpMatch = yelpData.items[1]
    /\ mergedData[2].yelpMatch = yelpData.items[1]

\* C12: an output record carries one matched review exactly when its
\* establishment name is non-empty and some review record has a non-empty name
\* equal to it after trimming and lower-casing; otherwise the match is absent.
C12_MatchExactlyWhenNamesAgree ==
    Returned =>
        \A k \in DOMAIN mergedData :
            LET d == mergedData[k]
            IN  /\ (d.yelpMatch \notin NoMatch)
                       <=> (d.Name \notin {EmptyString, undefined}
                              /\ ReviewsNamed(d.Name) # {})
                /\ d.yelpMatch \notin NoMatch
                       => \E m \in DOMAIN yelpData.items : d.yelpMatch = yelpData.items[m]

C12_Witness ==
    /\ Returned
    /\ Len(mergedData) = 2
    /\ mergedData[1].Name = Name_A
    /\ mergedData[1].yelpMatch \notin NoMatch
    /\ mergedData[1].yelpMatch.RestaurantName = Name_a_padded
    /\ Len(yelpData.items) = 2
    /\ yelpData.items[1].RestaurantName = Name_B

\* is the rating of a review record missing?
RatingMissing(d) == d.avg_rating \in {EmptyString, undefined}

\* the length the synthesis takes the name to have
SynthesisLength(d) ==
    IF d.RestaurantName \in {EmptyString, undefined} THEN 10 ELSE Len(d.RestaurantName)

\* 3.0 + tenths / 10 written with one decimal, 0 <= tenths < 15
RatingText(tenths) ==
    IF tenths < 10
    THEN <<"3", ".", DigitChars[tenths + 1]>>
    ELSE <<"4", ".", DigitChars[tenths - 10 + 1]>>

\* C13: processData gives a review record that misses avg_rating the rating
\* 3.0 + (len mod 15)/10 with one decimal and 5 + (len mod 100) reviews, len
\* the length of its name, 10 if the name is absent, so that two such records
\* with names of equal length get identical values; a record that has
\* avg_rating is left as it is.
C13_RatingSynthesis ==
    [][ (op = "processData" /\ pc = "start" /\ yelpData.isArray) =>
          /\ Len(yelpData'.items) = Len(yelpData.items)
          /\ \A k \in DOMAIN yelpData.items :
                LET d == yelpData.items[k]
                    after == yelpData'.items[k]
                IN  /\ RatingMissing(d) =>
                          /\ after.avg_rating = RatingText(SynthesisLength(d) % 15)
                          /\ after.num_of_reviews = JsNumber(5 + (SynthesisLength(d) % 100))
                          /\ after.RestaurantName = d.RestaurantName
                    /\ ~RatingMissing(d) => after = d
          /\ \A k, m \in DOMAIN yelpData.items :
                (/\ RatingMissing(yelpData.items[k])
                 /\ RatingMissing(yelpData.items[m])
                 /\ yelpData.items[k].RestaurantName \notin {EmptyString, undefined}
                 /\ yelpData.items[m].RestaurantName \notin {EmptyString, undefined}
                 /\ Len(yelpData.items[k].RestaurantName)
                      = Len(yelpData.items[m].RestaurantName))
                => /\ yelpData'.items[k].avg_rating = yelpData'.items[m].avg_rating
                   /\ yelpData'.items[k].num_of_reviews
                        = yelpData'.items[m].num_of_reviews
      ]_vars

C13_Witness ==
    /\ Returned
    /\ yelpData.isArray
    /\ Len(yelpData.items) = 2
    /\ yelpData.items[1].RestaurantName = Name_101
    /\ yelpData.items[1].avg_rating = <<"4", ".", "1">>
    /\ yelpData.items[1].num_of_reviews = JsNumber(6)
    /\ yelpData.items[2].RestaurantName = undefined
    /\ yelpData.items[2].avg_rating = <<"4", ".", "0">>
    /\ yelpData.items[2].num_of_reviews = JsNumber(15)

\* C14: when the review data is empty or not an array, processData does not
\* fail: it returns, no output record has a matched review, and healthScore,
\* healthGrade and worstSeverity are computed as usual.
C14_NoReviewData ==
    (op = "processData" /\ (~yelpData.isArray \/ yelpData.items = <<>>)) =>
        /\ pc \in {"start", "done"}
        /\ pc = "done" =>
              \A k \in DOMAIN mergedData :
                  LET d == mergedData[k]
                  IN  /\ d.yelpMatch \in NoMatch
                      /\ d.healthScore =
                            Max(0, 100 - StatusDeduction(d) - SeverityDeduction(d))
                      /\ d.healthGrade = GradeOf(d.healthScore)
                      /\ TierDeduction(d.worstSeverity) = SeverityDeduction(d)

C14_Witness ==
    /\ Returned
    /\ ~yelpData.isArray
    /\ Len(mergedData) = 2
    /\ mergedData[1].yelpMatch = JsUndefined
    /\ mergedData[1].healthScore = 100
    /\ mergedData[2].healthScore = 60
    /\ mergedData[2].worstSeverity = "M"

-----------------------------------------------------------------------------
(* Properties of loadData: cache, fetches, failure *)

Loaded == op = "loadData" /\ pc \in {"resolved", "shown"}

\* the load before this one returned its result to the page
AfterEarlierLoad == Loaded /\ page.usedCache /\ previous.resolved

\* the raw fields of an enriched record
RawFields(d) ==
    [ Name |-> d.Name, Type |-> d.Type, Status |-> d.Status, Severity |-> d.Severity,
      Latitude |-> d.Latitude, Longitude |-> d.Longitude ]

SampledFrom(merged, filtered) ==
    \A k \in 1..Len(merged) : \E j \in 1..Len(filtered) : RawFields(merged[k]) = filtered[j]

ProcessOutputs(dinesafeArg, yelpArg) ==
    LET filtered == SelectSeq(dinesafeArg, isRestaurantType)
        items == [k \in 1..Len(yelpArg.items) |-> synthesizeRating(yelpArg.items[k])]
        yelpLookup == buildYelpLookup(items, 1, EmptyMap)
    IN  { SelectSeq([k \in 1..Len(sample) |-> enrich(sample[k], yelpLookup)], hasCoordinates) :
            sample \in { randomSample(filtered, SAMPLE_SIZE, rnd) :
                           rnd \in RandomDraws(Len(filtered), SAMPLE_SIZE) } }

AllFetched == \A r \in Resources : fetches[r] = "ok"

\* C16: when a setItem call of the cache write throws, whichever of the three
\* it is, loadData still resolves, with the fetched geo and with a mergedData
\* that processData returns for the fetched raw data; no failure is reported.
C16_WriteFailureIgnored ==
    (op = "loadData" /\ page.writeFailedAt # 0) =>
        /\ Loaded
        /\ page.processDataCalls = 1
        /\ page.alerts = 0
        /\ geoResult = files.geo
        /\ mergedData \in ProcessOutputs(files.dinesafe, files.yelp)
        /\ pc = "resolved" => ENABLED ThenCallback

\* the first setItem call throws, nothing is cached, the map gets both records
C16_Witness ==
    /\ op = "loadData"
    /\ pc = "shown"
    /\ page.writeFailedAt = 1
    /\ sessionStorage = EmptyStorage
    /\ geoResult = Neighbourhoods
    /\ Len(mergedData) = 2
    /\ mergedData[1].Name = Name_A
    /\ mergedData[2].Name = Name_B

\* C17: on the fetch path processData has run only if all three requests have
\* completed, and then, whatever the order they completed in, it was given the
\* inspection array and the review records by the position of their requests,
\* and the result holds the fetched geo and a mergedData of these inputs.
C17_ProcessAfterAllFetches ==
    (op = "loadData" /\ ~page.usedCache /\ page.processDataCalls > 0) =>
        /\ AllFetched
        /\ Len(arrival) = Cardinality(Resources)
        /\ page.processDataCalls = 1
        /\ dinesafeJson = files.dinesafe
        /\ page.yelpArg = files.yelp
        /\ geoResult = files.geo
        /\ mergedData \in ProcessOutputs(files.dinesafe, files.yelp)

\* the requests complete in the reverse of the order they were started in
C17_Witness ==
    /\ op = "loadData"
    /\ pc = "resolved"
    /\ ~page.usedCache
    /\ arrival = <<"yelp", "dinesafe", "geo">>
    /\ page.processDataCalls = 1
    /\ Len(mergedData) = 2
    /\ mergedData[2].Name = Name_B
    /\ mergedData[2].yelpMatch \notin NoMatch

SomeFetchFailed == op = "loadData" /\ \E r \in Resources : fetches[r] = "failed"

\* C18: once a request has failed, loadData is rejected, processData has not
\* run and there is no mergedData, no setItem call was made and the cache is
\* still incomplete, initMap was not called, and the page shows the failure
\* notice once: the catch callback is due while no notice is shown, and after
\* it exactly one is shown and no callback is due any more.
C18_FetchFailureFailsLoadOnce ==
    SomeFetchFailed =>
        /\ pc \in {"rejected", "failed"}
        /\ page.processDataCalls = 0
        /\ page.setItemCalls = 0
        /\ ~cacheHit(sessionStorage)
        /\ page.initMapCalls = 0
        /\ mergedData = <<>>
        /\ pc = "rejected" => (page.alerts = 0 /\ ENABLED CatchCallback)
        /\ pc = "failed" => (page.alerts = 1 /\ ~ENABLED CatchCallback /\ ~ENABLED ThenCallback)

\* two requests completed, the third failed, the notice is shown
C18_Witness ==
    /\ SomeFetchFailed
    /\ pc = "failed"
    /\ page.alerts = 1
    /\ fetches["yelp"] = "failed"
    /\ Len(arrival) = 2

\* C19: a call of processData leaves the raw inspection array and every raw
\* review record it was given as they were.
C19_InputsUnchanged ==
    [][op = "processData" => (dinesafeJson' = dinesafeJson /\ yelpData' = yelpData)]_vars

\* a load that reads the cache, or has read it
FromCache == op = "loadData" /\ page.usedCache

\* C20: a loadData call that takes the cache branch starts no request and makes
\* no setItem call, and the step in which it reads the cache leaves
\* sessionStorage as it was; sessionStorage changes only in a step of the fetch
\* branch, after all three requests have completed.
C20_CachedLoadWritesNothing ==
    /\ [](FromCache =>
            /\ page.fetchCalls = 0
            /\ page.setItemCalls = 0
            /\ \A r \in Resources : fetches[r] = "none")
    /\ [][/\ (op = "loadData" /\ page'.usedCache) => sessionStorage' = sessionStorage
          /\ sessionStorage' # sessionStorage =>
                (~page'.usedCache /\ pc = "fetching" /\ AllFetched)]_vars

\* the second load of a session reads what the first one cached
C20_Witness ==
    /\ FromCache
    /\ pc = "shown"
    /\ page.load = 2
    /\ sessionStorage.written = 3
    /\ sessionStorage.cachedDinesafeData.present
    /\ Len(mergedData) = 2

CachedItems(storage) ==
    { key \in {"cachedGeoData", "cachedDinesafeData", "cachedYelpData"} :
        storage[key].present }

\* an earlier cache write failed part-way: some items are there, not all three
PartlyCached(storage) == Cardinality(CachedItems(storage)) \in {1, 2}

\* C30: loadData takes the cache branch only with all three items present; a
\* loadData that finds only some of them starts all three requests and takes
\* nothing from the cache, and what it then processes and returns is what
\* the three requests delivered.
C30_CacheUsedOnlyWhenComplete ==
    /\ [](op = "loadData" /\ page.usedCache =>
             /\ Cardinality(CachedItems(sessionStorage)) = 3
             /\ page.fetchCalls = 0)
    /\ [][/\ (op = "loadData" /\ pc = "start" /\ PartlyCached(sessionStorage)) =>
                /\ pc' = "fetching"
                /\ ~page'.usedCache
                /\ page'.fetchCalls = Cardinality(Resources)
                /\ \A r \in Resources : fetches'[r] = "pending"
          /\ (op = "loadData" /\ pc = "fetching" /\ pc' = "resolved"
                /\ PartlyCached(sessionStorage)) =>
                /\ geoResult' = files.geo
                /\ dinesafeJson' = files.dinesafe
                /\ page'.yelpArg = files.yelp]_vars

\* the first load cached geo only; the second fetched everything again, and
\* its cache write failed at the same call
C30_Witness ==
    /\ op = "loadData"
    /\ page.load = 2
    /\ pc = "resolved"
    /\ ~page.usedCache
    /\ page.fetchCalls = 3
    /\ CachedItems(sessionStorage) = {"cachedGeoData"}
    /\ page.writeFailedAt = 2
    /\ Len(mergedData) = 2

-----------------------------------------------------------------------------
(* Properties of the hover handlers and of the tooltip *)

HoverPending == TimersOf(ui, "hover")

\* C22: the hover computation is a cancellable debounce.  At most one delayed
\* computation is pending; the pending one is the one lastHoverTimeout holds
\* and it was asked for by the neighbourhood the pointer is in now: a hover of
\* another neighbourhood, a hover of a dot and a mouseleave cancelled every
\* earlier one, so a superseded computation never runs.
C22_HoverDebounceCancelled ==
    ui # NoUi =>
        /\ Cardinality(HoverPending) <= 1
        /\ \A t \in HoverPending :
              /\ t.id = ui.lastHoverTimeout
              /\ t.area = ui.pointer

\* the pointer went from Annex, whose computation was pending, onto a dot: the
\* tooltip still names Annex without a score, nothing is pending and the
\* computation of Annex never ran
C22_Witness ==
    /\ ui # NoUi
    /\ ui.pointer = "dot"
    /\ ui.tooltipContent = AreaContent("Annex", Blank)
    /\ HoverPending = {}
    /\ ui.lastHoverTimeout = 0
    /\ "Annex" \notin DOMAIN ui.neighbourhoodStatsCache

\* C23 (as stated): while isAnimating is true the tooltip is never visible
C23_HiddenWhileAnimating ==
    ui # NoUi /\ ui.isAnimating => ui.tooltipHidden

-----------------------------------------------------------------------------
(* Properties of the minimap *)

\* the scale of the transform handleBrush starts from
ScaleInEffect(s) ==
    IF s.currentTransform # NoTransform THEN s.currentTransform.k ELSE s.zoomTransform.k

PanUnchanged ==
    /\ ui'.currentTransform = ui.currentTransform
    /\ ui'.currentZoom = ui.currentZoom
    /\ ui'.isAnimating = ui.isAnimating

\* C25: a programmatic brush move never feeds back into the main map.  A zoom
\* event, whose handler calls updateViewport, leaves currentTransform and
\* currentZoom as the zoom set them and isAnimating as it was; the timer
\* callbacks, of which one calls updateViewport, leave currentTransform and
\* currentZoom alone; a brush event handled while updatingBrush is true
\* changes none of the three.  While updatingBrush is true the timer that
\* resets it is pending, and updatingBrush always returns to false.
C25_ProgrammaticBrushNoFeedback ==
    /\ [][ /\ ui'.event = "zoom" =>
                /\ ui'.currentTransform = ui'.zoomTransform
                /\ ui'.currentZoom = ui'.zoomTransform.k
                /\ ui'.isAnimating = ui.isAnimating
           /\ ui'.event = "timer" =>
                /\ ui'.currentTransform = ui.currentTransform
                /\ ui'.currentZoom = ui.currentZoom
           /\ ui.updatingBrush /\ ui'.event = "brush" => PanUnchanged ]_vars
    /\ [](ui.updatingBrush => TimersOf(ui, "brushReset") # {})
    /\ (ui.updatingBrush ~> ~ui.updatingBrush)

\* a zoom to scale 2 has just moved the brush of the minimap
C25_Witness ==
    /\ ui.event = "zoom"
    /\ ui.updatingBrush
    /\ ui.currentTransform = Transform(20, -600)
    /\ ui.currentZoom = 20
    /\ ~ui.isAnimating
    /\ ui.minimapVisible

\* C26: a brush of the user only pans.  The transform handleBrush stores has
\* the scale of the transform it started from, and whenever currentTransform
\* is not null currentZoom is its scale.
C26_BrushOnlyPans ==
    /\ [][ui'.event = "brush" => ScaleInEffect(ui') = ScaleInEffect(ui)]_vars
    /\ [](ui.currentTransform # NoTransform => ui.currentZoom = ui.currentTransform.k)

\* at scale 2 the user brushed the map from x = -600 to the selection centred
\* at 300
C26_Witness ==
    /\ ui.event = "brush"
    /\ ui.zoomTransform = Transform(20, -600)
    /\ ui.currentTransform = Transform(20, 0)
    /\ ui.currentZoom = 20
    /\ ui.isAnimating

\* C27 (as stated): the minimap is visible exactly when currentZoom is at
\* least zoomThreshold
C27_MinimapVisibleIffZoomed ==
    ui # NoUi => (ui.minimapVisible <=> ui.currentZoom >= zoomThreshold)

-----------------------------------------------------------------------------
(* Properties of the consumers of the enriched records *)

\* C21: the consumers never mutate the list of enriched records.  No step of
\* the map page (filter changes, hovers, clicks, the statistics panel) and no
\* step of the cards page changes mapState.mergedData, and once the cards page
\* has set allRestaurants, to the records of the statistics panel, no filter,
\* sort or page change alters its length, its order or its records.
C21_ConsumersNeverMutate ==
    [][ /\ mergedData' = mergedData
        /\ cards = NoCards /\ cards' # NoCards =>
              cards'.allRestaurants = ui.statsRecords
        /\ cards # NoCards =>
              /\ cards' # NoCards
              /\ cards'.allRestaurants = cards.allRestaurants ]_vars

\* the cards page shows the three records of a neighbourhood sorted by name,
\* in another order than allRestaurants keeps them
C21_Witness ==
    /\ cards # NoCards
    /\ Len(cards.allRestaurants) = 3
    /\ ~cards.currentFilters.yelpOnly
    /\ cards.currentFilters.sortBy = "name"
    /\ Len(cards.filteredRestaurants) = 3
    /\ cards.filteredRestaurants # cards.allRestaurants
    /\ cards.allRestaurants[2].Name = Name_C

\* C28 (as stated): in global view the records the statistics panel
\* summarises are the records getFilteredData returns
C28_StatsMatchFilteredData ==
    ui # NoUi /\ ui.selectedNeighbourhood = NoArea /\ ~ui.statsHidden =>
        ui.statsRecords = MainMap_getFilteredData(ui)

\* C29 (as stated): while the filtered list is not empty, currentPage is one
\* of the pages of the filtered list
C29_CurrentPageInRange ==
    cards # NoCards /\ cards.filteredRestaurants # <<>> =>
        cards.currentPage \in 1..totalPagesOf(Len(cards.filteredRestaurants))

====
